---- MODULE Spec2Model ----
(***************************************************************************)
(* Graph engine of lab-10: the two graph stores (AdjacencyMatrix and       *)
(* AdjacencyList, graph_representation.py) driven in lockstep by the same  *)
(* sequence of add_vertex / add_edge / remove_edge calls, and the          *)
(* algorithms that read them through get_vertices / get_neighbors          *)
(* (graph_traversal.py, shortest_path.py).                                 *)
(*                                                                         *)
(* Python dicts keep insertion order, and get_vertices() exposes it, so a  *)
(* dict is modelled as a sequence of <<key, value>> pairs with unique      *)
(* keys. Python lists indexed from 0 (the matrix) are functions on         *)
(* 0..n-1. Weights are floats in the code; the model uses small naturals,  *)
(* on which float addition and comparison are exact. The `weighted` flag   *)
(* is stored by both constructors and read only by __str__; it is left out.*)
(*                                                                         *)
(* Spec is the pair of stores under any sequence of at most MaxOps calls;  *)
(* SpecTraced is the same with the last call kept in `last`, for           *)
(* properties about two calls in a row; SpecUnweighted is Spec with every  *)
(* add_edge left at its default weight, for the algorithms that never read *)
(* a weight; SpecCalls adds the reads and the algorithm calls, each by the  *)
(* store it leaves behind. The algorithms are operators over the store     *)
(* state, computed loop by loop as the code computes them. SpecDijkstra    *)
(* and SpecRuns run the algorithms one step at a time in `run` (dijkstra   *)
(* one pop or relaxation per step, the others one loop pass per step);     *)
(* SpecRuns is fair to the running call, which keeps executing.            *)
(***************************************************************************)
EXTENDS Integers, Sequences, FiniteSets, TLC

\* ----- bounds and input sets -------------------------------------------------
\* number of store calls in one run
MaxOps == 3

\* vertex keys passed to the calls
Keys == {1, 2, 3}
\* edge weights tried: non-negative, zero included; 0 + 0 < 2 makes a detour
\* cheaper than a direct edge
Weights == {0, 2}

\* Python's None (absent weight, absent parent, absent result)
None == -1
\* float('inf')
Inf == 1000000

\* ----- Python dict as an insertion-ordered sequence of <<key, value>> -----
DictHas(d, k) == \E i \in 1..Len(d) : d[i][1] = k
DictGet(d, k) == d[CHOOSE i \in 1..Len(d) : d[i][1] = k][2]
DictSet(d, k, val) ==
    IF DictHas(d, k)
    THEN [i \in 1..Len(d) |-> IF d[i][1] = k THEN <<k, val>> ELSE d[i]]
    ELSE Append(d, <<k, val>>)
DictKeys(d) == [i \in 1..Len(d) |-> d[i][1]]

\* elements of a sequence, and a list comprehension with a filter
Range(s) == {s[i] : i \in 1..Len(s)}
Reverse(s) == [i \in 1..Len(s) |-> s[Len(s) + 1 - i]]

\* ----- AdjacencyMatrix ----------------------------------------------------
\* a store is [directed, vertices, index_to_vertex, matrix, vertex_count]
M_init(directed) ==
    [directed        |-> directed,
     vertices        |-> << >>,
     index_to_vertex |-> << >>,
     matrix          |-> << >>,
     vertex_count    |-> 0]

\* add_vertex without the loops that copy the old matrix
M_add_vertex_uncopied(g, vertex) ==
    IF DictHas(g.vertices, vertex) THEN g
    ELSE LET new_size == g.vertex_count + 1
         IN [g EXCEPT !.vertices = DictSet(g.vertices, vertex, g.vertex_count),
                      !.index_to_vertex = DictSet(g.index_to_vertex, g.vertex_count, vertex),
                      !.matrix = [i \in 0..(new_size - 1) |->
                                    [j \in 0..(new_size - 1) |-> None]],
                      !.vertex_count = g.vertex_count + 1]

M_add_vertex(g, vertex) ==
    IF DictHas(g.vertices, vertex) THEN g
    ELSE LET new_size == g.vertex_count + 1
             new_matrix == [i \in 0..(new_size - 1) |->
                              [j \in 0..(new_size - 1) |->
                                 IF i < g.vertex_count /\ j < g.vertex_count
                                 THEN g.matrix[i][j] ELSE None]]
         IN [g EXCEPT !.vertices = DictSet(g.vertices, vertex, g.vertex_count),
                      !.index_to_vertex = DictSet(g.index_to_vertex, g.vertex_count, vertex),
                      !.matrix = new_matrix,
                      !.vertex_count = g.vertex_count + 1]

\* M_add_edge that never writes the mirrored cell
M_add_edge_oneway(g, u, v, weight) ==
    LET g2 == M_add_vertex(M_add_vertex(g, u), v)
        u_idx == DictGet(g2.vertices, u)
        v_idx == DictGet(g2.vertices, v)
    IN [g2 EXCEPT !.matrix = [g2.matrix EXCEPT ![u_idx][v_idx] = weight]]

M_add_edge(g, u, v, weight) ==
    LET g2 == M_add_vertex(M_add_vertex(g, u), v)
        u_idx == DictGet(g2.vertices, u)
        v_idx == DictGet(g2.vertices, v)
        m1 == [g2.matrix EXCEPT ![u_idx][v_idx] = weight]
        m2 == IF ~g2.directed THEN [m1 EXCEPT ![v_idx][u_idx] = weight] ELSE m1
    IN [g2 EXCEPT !.matrix = m2]

\* remove_edge that clears the whole row of u
M_remove_edge_row(g, u, v) ==
    IF ~DictHas(g.vertices, u) \/ ~DictHas(g.vertices, v) THEN g
    ELSE LET u_idx == DictGet(g.vertices, u)
         IN [g EXCEPT !.matrix =
                [g.matrix EXCEPT ![u_idx] = [i \in DOMAIN g.matrix[u_idx] |-> None]]]

M_remove_edge(g, u, v) ==
    IF ~DictHas(g.vertices, u) \/ ~DictHas(g.vertices, v) THEN g
    ELSE LET u_idx == DictGet(g.vertices, u)
             v_idx == DictGet(g.vertices, v)
             m1 == [g.matrix EXCEPT ![u_idx][v_idx] = None]
             m2 == IF ~g.directed THEN [m1 EXCEPT ![v_idx][u_idx] = None] ELSE m1
         IN [g EXCEPT !.matrix = m2]

M_has_edge(g, u, v) ==
    IF ~DictHas(g.vertices, u) \/ ~DictHas(g.vertices, v) THEN FALSE
    ELSE g.matrix[DictGet(g.vertices, u)][DictGet(g.vertices, v)] # None

M_get_weight(g, u, v) ==
    IF ~M_has_edge(g, u, v) THEN None
    ELSE g.matrix[DictGet(g.vertices, u)][DictGet(g.vertices, v)]

\* the loop `for i in range(vertex_count)` of get_neighbors, from index i on
RECURSIVE M_row_scan(_, _, _)
M_row_scan(g, vertex_idx, i) ==
    IF i >= g.vertex_count THEN << >>
    ELSE IF g.matrix[vertex_idx][i] # None
         THEN << <<DictGet(g.index_to_vertex, i), g.matrix[vertex_idx][i]>> >>
              \o M_row_scan(g, vertex_idx, i + 1)
         ELSE M_row_scan(g, vertex_idx, i + 1)

M_get_neighbors(g, vertex) ==
    IF ~DictHas(g.vertices, vertex) THEN << >>
    ELSE M_row_scan(g, DictGet(g.vertices, vertex), 0)

M_get_vertices(g) == DictKeys(g.vertices)

M_get_vertex_count(g) == g.vertex_count

\* ----- AdjacencyList ------------------------------------------------------
\* a store is [directed, graph]; graph maps a vertex to its list of <<neighbor, weight>>
L_init(directed) == [directed |-> directed, graph |-> << >>]

\* add_vertex with an unconditional `self.graph[vertex] = []`
L_add_vertex_reset(g, vertex) == [g EXCEPT !.graph = DictSet(g.graph, vertex, << >>)]

L_add_vertex(g, vertex) ==
    IF ~DictHas(g.graph, vertex)
    THEN [g EXCEPT !.graph = DictSet(g.graph, vertex, << >>)]
    ELSE g

L_add_edge(g, u, v, weight) ==
    LET g2 == L_add_vertex(L_add_vertex(g, u), v)
        d1 == DictSet(g2.graph, u, Append(DictGet(g2.graph, u), <<v, weight>>))
        d2 == IF ~g2.directed
              THEN DictSet(d1, v, Append(DictGet(d1, v), <<u, weight>>))
              ELSE d1
    IN [g2 EXCEPT !.graph = d2]

\* [(neighbor, w) for neighbor, w in lst if neighbor != x]
RECURSIVE WithoutNeighbor(_, _)
WithoutNeighbor(lst, x) ==
    IF lst = << >> THEN << >>
    ELSE IF Head(lst)[1] # x
         THEN <<Head(lst)>> \o WithoutNeighbor(Tail(lst), x)
         ELSE WithoutNeighbor(Tail(lst), x)

\* L_remove_edge that forgets the list of v
L_remove_edge_oneway(g, u, v) ==
    IF ~DictHas(g.graph, u) THEN g
    ELSE [g EXCEPT !.graph = DictSet(g.graph, u, WithoutNeighbor(DictGet(g.graph, u), v))]

L_remove_edge(g, u, v) ==
    IF ~DictHas(g.graph, u) THEN g
    ELSE LET d1 == DictSet(g.graph, u, WithoutNeighbor(DictGet(g.graph, u), v))
             d2 == IF ~g.directed /\ DictHas(d1, v)
                   THEN DictSet(d1, v, WithoutNeighbor(DictGet(d1, v), u))
                   ELSE d1
         IN [g EXCEPT !.graph = d2]

L_has_edge(g, u, v) ==
    IF ~DictHas(g.graph, u) THEN FALSE
    ELSE \E i \in 1..Len(DictGet(g.graph, u)) : DictGet(g.graph, u)[i][1] = v

\* the first matching entry of the list wins
L_get_weight(g, u, v) ==
    IF ~DictHas(g.graph, u) THEN None
    ELSE LET lst == DictGet(g.graph, u)
             hits == {i \in 1..Len(lst) : lst[i][1] = v}
         IN IF hits = {} THEN None
            ELSE lst[CHOOSE i \in hits : \A j \in hits : i <= j][2]

L_get_neighbors(g, vertex) ==
    IF DictHas(g.graph, vertex) THEN DictGet(g.graph, vertex) ELSE << >>

L_get_vertices(g) == DictKeys(g.graph)

L_get_vertex_count(g) == Len(g.graph)

\* ----- get_edges / get_edge_count (both stores) -----------------------------
\* edge_key = (min(u, v), max(u, v)) if not self.directed else (u, v)
edge_key(directed, u, v) ==
    IF ~directed THEN <<IF u < v THEN u ELSE v, IF u < v THEN v ELSE u>> ELSE <<u, v>>

\* edges_scan that lists every entry, whether its key was seen or not
RECURSIVE edges_scan_all(_, _, _, _, _)
edges_scan_all(directed, u, nb, i, st) ==
    IF i > Len(nb) THEN st
    ELSE edges_scan_all(directed, u, nb, i + 1,
            [edges |-> Append(st.edges, <<u, nb[i][1], nb[i][2]>>),
             visited_edges |-> st.visited_edges \cup {edge_key(directed, u, nb[i][1])}])

\* the inner loop over the entries of u, from entry i on; st = [edges, visited_edges]
RECURSIVE edges_scan(_, _, _, _, _)
edges_scan(directed, u, nb, i, st) ==
    IF i > Len(nb) THEN st
    ELSE LET v == nb[i][1]
             weight == nb[i][2]
             key == edge_key(directed, u, v)
         IN IF key \notin st.visited_edges
            THEN edges_scan(directed, u, nb, i + 1,
                    [edges |-> Append(st.edges, <<u, v, weight>>),
                     visited_edges |-> st.visited_edges \cup {key}])
            ELSE edges_scan(directed, u, nb, i + 1, st)

\* `for u in self.vertices`: the row of u is scanned in index order
RECURSIVE M_edges_loop(_, _, _)
M_edges_loop(g, k, st) ==
    IF k > Len(g.vertices) THEN st.edges
    ELSE M_edges_loop(g, k + 1,
            edges_scan(g.directed, g.vertices[k][1],
                       M_row_scan(g, g.vertices[k][2], 0), 1, st))

M_get_edges(g) == M_edges_loop(g, 1, [edges |-> << >>, visited_edges |-> {}])

M_get_edge_count(g) == Len(M_get_edges(g))

\* `for u in self.graph: for v, weight in self.graph[u]`
RECURSIVE L_edges_loop(_, _, _)
L_edges_loop(g, k, st) ==
    IF k > Len(g.graph) THEN st.edges
    ELSE L_edges_loop(g, k + 1,
            edges_scan(g.directed, g.graph[k][1], g.graph[k][2], 1, st))

L_get_edges(g) == L_edges_loop(g, 1, [edges |-> << >>, visited_edges |-> {}])

L_get_edge_count(g) == Len(L_get_edges(g))

\* ----- the duck-typed graph the algorithms read -----------------------------
\* an algorithm sees a store only through get_vertices(), get_neighbors(x)
\* and the `directed` attribute
M_view(g) ==
    [directed  |-> g.directed,
     vertices  |-> M_get_vertices(g),
     neighbors |-> [x \in Keys |-> M_get_neighbors(g, x)]]

L_view(g) ==
    [directed  |-> g.directed,
     vertices  |-> L_get_vertices(g),
     neighbors |-> [x \in Keys |-> L_get_neighbors(g, x)]]

\* ----- GraphTraversal.bfs --------------------------------------------------
\* bfs_scan that marks the expanded vertex, not the discovered one, as visited
RECURSIVE bfs_scan_mark_on_expand(_, _, _, _)
bfs_scan_mark_on_expand(nb, i, current, st) ==
    IF i > Len(nb) THEN st
    ELSE LET neighbor == nb[i][1]
         IN IF neighbor \notin st.visited
            THEN bfs_scan_mark_on_expand(nb, i + 1, current,
                    [visited   |-> st.visited \cup {current},
                     distances |-> (neighbor :> (st.distances[current] + 1)) @@ st.distances,
                     parents   |-> (neighbor :> current) @@ st.parents,
                     queue     |-> Append(st.queue, neighbor)])
            ELSE bfs_scan_mark_on_expand(nb, i + 1, current, st)

\* the `for neighbor, _ in graph.get_neighbors(current)` loop, from entry i on
RECURSIVE bfs_scan(_, _, _, _)
bfs_scan(nb, i, current, st) ==
    IF i > Len(nb) THEN st
    ELSE LET neighbor == nb[i][1]
         IN IF neighbor \notin st.visited
            THEN bfs_scan(nb, i + 1, current,
                    [visited   |-> st.visited \cup {neighbor},
                     distances |-> (neighbor :> (st.distances[current] + 1)) @@ st.distances,
                     parents   |-> (neighbor :> current) @@ st.parents,
                     queue     |-> Append(st.queue, neighbor)])
            ELSE bfs_scan(nb, i + 1, current, st)

\* the `while queue` loop
RECURSIVE bfs_loop(_, _)
bfs_loop(G, st) ==
    IF st.queue = << >> THEN [distances |-> st.distances, parents |-> st.parents]
    ELSE LET current == Head(st.queue)
         IN bfs_loop(G, bfs_scan(G.neighbors[current], 1, current,
                                 [st EXCEPT !.queue = Tail(st.queue)]))

bfs(G, start) ==
    bfs_loop(G, [distances |-> (start :> 0),
                 parents   |-> (start :> None),
                 queue     |-> <<start>>,
                 visited   |-> {start}])

\* walk_parents without the final path.reverse(): the path from end back to start
RECURSIVE walk_parents_unreversed(_, _)
walk_parents_unreversed(parents, current) ==
    IF current = None THEN << >>
    ELSE <<current>> \o walk_parents_unreversed(parents, parents[current])

\* `while current is not None: path.append(current); current = parents[current]`
\* followed by path.reverse()
RECURSIVE walk_parents(_, _)
walk_parents(parents, current) ==
    IF current = None THEN << >>
    ELSE Append(walk_parents(parents, parents[current]), current)

\* results that may be absent: [kind |-> "none"] or [kind |-> "value", ...]
bfs_path(G, start, end) ==
    LET r == bfs(G, start)
    IN IF end \notin DOMAIN r.distances
       THEN [kind |-> "none", path |-> << >>]
       ELSE [kind |-> "value", path |-> walk_parents(r.parents, end)]

\* ----- GraphTraversal.dfs_recursive ---------------------------------------
\* `visited` is one set shared by all the recursive calls: each call returns
\* its result list together with the set as it left it
RECURSIVE dfs_rec(_, _, _)
\* dfs_rec_scan in which a call does not see what its sibling calls visited
RECURSIVE dfs_rec_scan_unshared(_, _, _, _)
dfs_rec_scan_unshared(G, nb, i, st) ==
    IF i > Len(nb) THEN st
    ELSE LET neighbor == nb[i][1]
         IN IF neighbor \notin st.visited
            THEN LET sub == dfs_rec(G, neighbor, st.visited)
                 IN dfs_rec_scan_unshared(G, nb, i + 1,
                        [result  |-> st.result \o sub.result,
                         visited |-> st.visited \cup {neighbor}])
            ELSE dfs_rec_scan_unshared(G, nb, i + 1, st)

RECURSIVE dfs_rec_scan(_, _, _, _)
dfs_rec_scan(G, nb, i, st) ==
    IF i > Len(nb) THEN st
    ELSE LET neighbor == nb[i][1]
         IN IF neighbor \notin st.visited
            THEN LET sub == dfs_rec(G, neighbor, st.visited)
                 IN dfs_rec_scan(G, nb, i + 1,
                        [result |-> st.result \o sub.result, visited |-> sub.visited])
            ELSE dfs_rec_scan(G, nb, i + 1, st)

dfs_rec(G, start, visited) ==
    dfs_rec_scan(G, G.neighbors[start], 1,
                 [result |-> <<start>>, visited |-> visited \cup {start}])

dfs_recursive(G, start) == dfs_rec(G, start, {}).result

\* ----- GraphTraversal.dfs_iterative ---------------------------------------
\* `for neighbor, _ in reversed(neighbors): if neighbor not in visited: stack.append(neighbor)`
\* (visited does not change inside this loop)
RECURSIVE push_unvisited(_, _, _)
push_unvisited(stack, nb, visited) ==
    IF nb = << >> THEN stack
    ELSE push_unvisited(IF Head(nb)[1] \notin visited
                        THEN Append(stack, Head(nb)[1]) ELSE stack,
                        Tail(nb), visited)

\* dfs_iter_loop that pushes the neighbors in enumeration order (no reversed())
RECURSIVE dfs_iter_loop_unreversed(_, _)
dfs_iter_loop_unreversed(G, st) ==
    IF st.stack = << >> THEN st
    ELSE LET current == st.stack[Len(st.stack)]
             popped  == SubSeq(st.stack, 1, Len(st.stack) - 1)
         IN IF current \notin st.visited
            THEN LET visited == st.visited \cup {current}
                 IN dfs_iter_loop_unreversed(G,
                        [visited |-> visited,
                         result  |-> Append(st.result, current),
                         stack   |-> push_unvisited(popped, G.neighbors[current], visited)])
            ELSE dfs_iter_loop_unreversed(G, [st EXCEPT !.stack = popped])

\* the `while stack` loop; the top of the stack is the end of the sequence
RECURSIVE dfs_iter_loop(_, _)
dfs_iter_loop(G, st) ==
    IF st.stack = << >> THEN st
    ELSE LET current == st.stack[Len(st.stack)]
             popped  == SubSeq(st.stack, 1, Len(st.stack) - 1)
         IN IF current \notin st.visited
            THEN LET visited == st.visited \cup {current}
                 IN dfs_iter_loop(G,
                        [visited |-> visited,
                         result  |-> Append(st.result, current),
                         stack   |-> push_unvisited(popped,
                                        Reverse(G.neighbors[current]), visited)])
            ELSE dfs_iter_loop(G, [st EXCEPT !.stack = popped])

dfs_iterative(G, start) ==
    dfs_iter_loop(G, [visited |-> {}, stack |-> <<start>>, result |-> << >>]).result

\* dfs_iterative_from_vertex that starts from an empty visited set of its own
dfs_iterative_from_vertex_fresh(G, start, visited) ==
    LET st == dfs_iter_loop(G, [visited |-> {}, stack |-> <<start>>, result |-> << >>])
    IN [result |-> st.result, visited |-> visited \cup st.visited]

\* returns the component and the shared visited set as it left it
dfs_iterative_from_vertex(G, start, visited) ==
    IF start \in visited THEN [result |-> << >>, visited |-> visited]
    ELSE LET st == dfs_iter_loop(G, [visited |-> visited, stack |-> <<start>>,
                                     result |-> << >>])
         IN [result |-> st.result, visited |-> st.visited]

\* the `for vertex in graph.get_vertices()` loop, from position i on
RECURSIVE dfs_all_loop(_, _, _)
dfs_all_loop(G, i, st) ==
    IF i > Len(G.vertices) THEN st.components
    ELSE IF G.vertices[i] \notin st.visited
         THEN LET c == dfs_iterative_from_vertex(G, G.vertices[i], st.visited)
              IN dfs_all_loop(G, i + 1,
                    [visited |-> c.visited, components |-> Append(st.components, c.result)])
         ELSE dfs_all_loop(G, i + 1, st)

dfs_all_components(G) == dfs_all_loop(G, 1, [visited |-> {}, components |-> << >>])

\* ----- ShortestPath.dijkstra ------------------------------------------------
\* heapq orders the (distance, vertex) tuples lexicographically
TupleLE(a, b) == a[1] < b[1] \/ (a[1] = b[1] /\ a[2] <= b[2])

\* a queue popped in insertion order instead of by smallest distance
HeapMinIndex_fifo(pq) == 1

\* position of the entry heappop returns: a smallest tuple of the queue
HeapMinIndex(pq) ==
    CHOOSE i \in 1..Len(pq) :
        \A j \in 1..Len(pq) : TupleLE(pq[i], pq[j]) /\ (pq[j] = pq[i] => i <= j)

RemoveAt(s, i) == SubSeq(s, 1, i - 1) \o SubSeq(s, i + 1, Len(s))

\* the `for neighbor, weight in graph.get_neighbors(current)` loop, from entry i on
RECURSIVE dijkstra_scan(_, _, _, _, _)
dijkstra_scan(nb, i, current, current_dist, st) ==
    IF i > Len(nb) THEN st
    ELSE LET neighbor == nb[i][1]
             weight   == nb[i][2]
             new_dist == current_dist + weight
         IN IF neighbor \in st.visited
            THEN dijkstra_scan(nb, i + 1, current, current_dist, st)
            ELSE IF new_dist < st.distances[neighbor]
                 THEN dijkstra_scan(nb, i + 1, current, current_dist,
                        [st EXCEPT !.distances[neighbor] = new_dist,
                                   !.parents[neighbor] = current,
                                   !.pq = Append(st.pq, <<new_dist, neighbor>>)])
                 ELSE dijkstra_scan(nb, i + 1, current, current_dist, st)

\* the `while pq` loop
RECURSIVE dijkstra_loop(_, _)
dijkstra_loop(G, st) ==
    IF st.pq = << >> THEN [distances |-> st.distances, parents |-> st.parents]
    ELSE LET k == HeapMinIndex(st.pq)
             current_dist == st.pq[k][1]
             current == st.pq[k][2]
             popped == [st EXCEPT !.pq = RemoveAt(st.pq, k)]
         IN IF current \in st.visited
            THEN dijkstra_loop(G, popped)
            ELSE dijkstra_loop(G,
                    dijkstra_scan(G.neighbors[current], 1, current, current_dist,
                                  [popped EXCEPT !.visited = st.visited \cup {current}]))

\* the locals before the `while pq` loop
dijkstra_start(G, start) ==
    [distances |-> (start :> 0) @@ [v \in Range(G.vertices) |-> Inf],
     parents   |-> [v \in Range(G.vertices) |-> None],
     pq        |-> << <<0, start>> >>,
     visited   |-> {}]

dijkstra(G, start) == dijkstra_loop(G, dijkstra_start(G, start))

\* one pass of the body of `for neighbor, weight in graph.get_neighbors(current)`
dijkstra_relax(entry, current, current_dist, st) ==
    LET neighbor == entry[1]
        weight   == entry[2]
        new_dist == current_dist + weight
    IN IF neighbor \in st.visited THEN st
       ELSE IF new_dist < st.distances[neighbor]
            THEN [st EXCEPT !.distances[neighbor] = new_dist,
                            !.parents[neighbor] = current,
                            !.pq = Append(st.pq, <<new_dist, neighbor>>)]
            ELSE st

\* position of a run after the for loop handled entry i - 1 of nb
AfterEntry(nb, i) == IF i > Len(nb) THEN "while" ELSE "for"

\* a pop that finalizes the popped vertex whether or not it is in visited
dijkstra_pop_revisit(G, r) ==
    LET k == HeapMinIndex(r.st.pq)
        current_dist == r.st.pq[k][1]
        current == r.st.pq[k][2]
        nb == G.neighbors[current]
    IN [r EXCEPT !.st = [r.st EXCEPT !.pq = RemoveAt(r.st.pq, k),
                                    !.visited = r.st.visited \cup {current}],
                 !.current = current,
                 !.current_dist = current_dist,
                 !.nb = nb,
                 !.i = 1,
                 !.pc = AfterEntry(nb, 1),
                 !.finalized = Append(r.finalized, <<current, r.st.distances[current]>>)]

\* the head of one pass of `while pq`: heappop, the visited test, visited.add and
\* the call of get_neighbors; r.finalized keeps, for each visited.add, the vertex
\* and its distances entry at that moment
dijkstra_pop(G, r) ==
    LET k == HeapMinIndex(r.st.pq)
        current_dist == r.st.pq[k][1]
        current == r.st.pq[k][2]
        nb == G.neighbors[current]
    IN IF current \in r.st.visited
       THEN [r EXCEPT !.st = [r.st EXCEPT !.pq = RemoveAt(r.st.pq, k)],
                      !.current = current,
                      !.current_dist = current_dist]
       ELSE [r EXCEPT !.st = [r.st EXCEPT !.pq = RemoveAt(r.st.pq, k),
                                         !.visited = r.st.visited \cup {current}],
                      !.current = current,
                      !.current_dist = current_dist,
                      !.nb = nb,
                      !.i = 1,
                      !.pc = AfterEntry(nb, 1),
                      !.finalized = Append(r.finalized, <<current, r.st.distances[current]>>)]

\* distances[end] and parents[current] are plain dict lookups: a missing key raises KeyError
RECURSIVE walk_raises(_, _)
walk_raises(parents, current) ==
    IF current = None THEN FALSE
    ELSE IF current \notin DOMAIN parents THEN TRUE
    ELSE walk_raises(parents, parents[current])

dijkstra_path(G, start, end) ==
    LET r == dijkstra(G, start)
    IN IF end \notin DOMAIN r.distances
       THEN [kind |-> "KeyError", path |-> << >>, total |-> None]
       ELSE IF r.distances[end] = Inf
       THEN [kind |-> "none", path |-> << >>, total |-> None]
       ELSE IF walk_raises(r.parents, end)
       THEN [kind |-> "KeyError", path |-> << >>, total |-> None]
       ELSE [kind |-> "value", path |-> walk_parents(r.parents, end),
             total |-> r.distances[end]]

\* ----- Connectivity ----------------------------------------------------------
\* `for neighbor, _ in graph.get_neighbors(current): if neighbor not in visited: stack.append(neighbor)`
\* pushes in enumeration order (no reversal)
RECURSIVE dfs_component_loop(_, _)
dfs_component_loop(G, st) ==
    IF st.stack = << >> THEN st
    ELSE LET current == st.stack[Len(st.stack)]
             popped  == SubSeq(st.stack, 1, Len(st.stack) - 1)
         IN IF current \notin st.visited
            THEN LET visited == st.visited \cup {current}
                 IN dfs_component_loop(G,
                        [visited |-> visited,
                         result  |-> Append(st.result, current),
                         stack   |-> push_unvisited(popped, G.neighbors[current], visited)])
            ELSE dfs_component_loop(G, [st EXCEPT !.stack = popped])

\* _dfs_component that starts from an empty visited set of its own
dfs_component_fresh(G, start, visited) ==
    LET st == dfs_component_loop(G, [visited |-> {}, stack |-> <<start>>,
                                     result |-> << >>])
    IN [result |-> st.result, visited |-> visited \cup st.visited]

dfs_component(G, start, visited) ==
    LET st == dfs_component_loop(G, [visited |-> visited, stack |-> <<start>>,
                                     result |-> << >>])
    IN [result |-> st.result, visited |-> st.visited]

RECURSIVE find_components_loop(_, _, _)
find_components_loop(G, i, st) ==
    IF i > Len(G.vertices) THEN st.components
    ELSE IF G.vertices[i] \notin st.visited
         THEN LET c == dfs_component(G, G.vertices[i], st.visited)
              IN find_components_loop(G, i + 1,
                    [visited |-> c.visited, components |-> Append(st.components, c.result)])
         ELSE find_components_loop(G, i + 1, st)

find_connected_components(G) ==
    find_components_loop(G, 1, [visited |-> {}, components |-> << >>])

\* is_connected without the test for the empty store
is_connected_nonempty(G) == Len(find_connected_components(G)) = 1

is_connected(G) ==
    IF G.vertices = << >> THEN TRUE
    ELSE Len(find_connected_components(G)) = 1

\* ----- TopologicalSort.topological_sort (Kahn) ------------------------------
\* results: [kind |-> "ValueError"], [kind |-> "none"] or [kind |-> "value", order]
\* `for v, _ in graph.get_neighbors(u): in_degree[v] = in_degree.get(v, 0) + 1`
RECURSIVE in_degree_scan(_, _, _)
in_degree_scan(nb, i, in_degree) ==
    IF i > Len(nb) THEN in_degree
    ELSE LET v == nb[i][1]
             old == IF DictHas(in_degree, v) THEN DictGet(in_degree, v) ELSE 0
         IN in_degree_scan(nb, i + 1, DictSet(in_degree, v, old + 1))

\* the `for u in graph.get_vertices()` loop, from position k on
RECURSIVE in_degree_loop(_, _, _)
in_degree_loop(G, k, in_degree) ==
    IF k > Len(G.vertices) THEN in_degree
    ELSE in_degree_loop(G, k + 1,
            in_degree_scan(G.neighbors[G.vertices[k]], 1, in_degree))

IsZeroDegree(item) == item[2] = 0

\* `[v for v, degree in in_degree.items() if degree == 0]`
zero_in_degree(in_degree) == DictKeys(SelectSeq(in_degree, IsZeroDegree))

\* `in_degree[neighbor] -= 1; if in_degree[neighbor] == 0: queue.append(neighbor)`
RECURSIVE kahn_scan(_, _, _)
kahn_scan(nb, i, st) ==
    IF i > Len(nb) THEN st
    ELSE LET neighbor == nb[i][1]
             degree == DictGet(st.in_degree, neighbor) - 1
         IN kahn_scan(nb, i + 1,
                [st EXCEPT !.in_degree = DictSet(st.in_degree, neighbor, degree),
                           !.queue = IF degree = 0 THEN Append(st.queue, neighbor)
                                     ELSE st.queue])

\* the `while queue` loop
RECURSIVE kahn_loop(_, _)
kahn_loop(G, st) ==
    IF st.queue = << >> THEN st.result
    ELSE LET current == Head(st.queue)
         IN kahn_loop(G, kahn_scan(G.neighbors[current], 1,
                            [st EXCEPT !.queue = Tail(st.queue),
                                       !.result = Append(st.result, current)]))

\* kahn_result that returns whatever was ordered, complete or not
kahn_result_partial(G, result) == [kind |-> "value", order |-> result]

\* `if len(result) != len(graph.get_vertices()): return None` / `return result`
kahn_result(G, result) ==
    IF Len(result) # Len(G.vertices) THEN [kind |-> "none", order |-> << >>]
    ELSE [kind |-> "value", order |-> result]

\* the body after the directedness test
kahn(G) ==
    LET in_degree == in_degree_loop(G, 1, [k \in 1..Len(G.vertices) |-> <<G.vertices[k], 0>>])
    IN kahn_result(G, kahn_loop(G, [in_degree |-> in_degree,
                                    queue     |-> zero_in_degree(in_degree),
                                    result    |-> << >>]))

\* topological_sort without the directedness test
topological_sort_unguarded(G) == kahn(G)

topological_sort(G) ==
    IF ~G.directed THEN [kind |-> "ValueError", order |-> << >>]
    ELSE kahn(G)

\* ----- TopologicalSort.topological_sort_dfs --------------------------------
\* the nested dfs(vertex): visited, rec_stack and result are shared by all the
\* calls; each call returns them as it left them, with its return value in `ok`
RECURSIVE topo_dfs(_, _, _)
RECURSIVE topo_dfs_scan(_, _, _, _)
\* `for neighbor, _ in graph.get_neighbors(vertex): if not dfs(neighbor): return False`
topo_dfs_scan(G, nb, i, st) ==
    IF i > Len(nb) THEN [st EXCEPT !.ok = TRUE]
    ELSE LET sub == topo_dfs(G, nb[i][1], st)
         IN IF ~sub.ok THEN sub ELSE topo_dfs_scan(G, nb, i + 1, sub)

topo_dfs(G, vertex, st) ==
    IF vertex \in st.rec_stack THEN [st EXCEPT !.ok = FALSE]
    ELSE IF vertex \in st.visited THEN [st EXCEPT !.ok = TRUE]
    ELSE LET after == topo_dfs_scan(G, G.neighbors[vertex], 1,
                         [st EXCEPT !.visited = @ \cup {vertex},
                                    !.rec_stack = @ \cup {vertex}])
         IN IF ~after.ok THEN after
            ELSE [after EXCEPT !.rec_stack = @ \ {vertex},
                               !.result = Append(@, vertex)]

\* topo_dfs_result without result.reverse(): vertices in finishing order
topo_dfs_result_unreversed(result) == [kind |-> "value", order |-> result]

\* `result.reverse(); return result`
topo_dfs_result(result) == [kind |-> "value", order |-> Reverse(result)]

\* the `for vertex in graph.get_vertices()` loop, from position k on
RECURSIVE topo_dfs_loop(_, _, _)
topo_dfs_loop(G, k, st) ==
    IF k > Len(G.vertices) THEN topo_dfs_result(st.result)
    ELSE IF G.vertices[k] \notin st.visited
         THEN LET after == topo_dfs(G, G.vertices[k], st)
              IN IF ~after.ok THEN [kind |-> "none", order |-> << >>]
                 ELSE topo_dfs_loop(G, k + 1, after)
         ELSE topo_dfs_loop(G, k + 1, st)

topological_sort_dfs(G) ==
    IF ~G.directed THEN [kind |-> "ValueError", order |-> << >>]
    ELSE topo_dfs_loop(G, 1, [visited |-> {}, rec_stack |-> {}, result |-> << >>,
                              ok |-> TRUE])

\* ----- one pass of each loop --------------------------------------------------
\* bfs_pass whose scan marks the expanded vertex, not the discovered one
bfs_pass_mark_on_expand(G, st) ==
    LET current == Head(st.queue)
    IN bfs_scan_mark_on_expand(G.neighbors[current], 1, current,
                               [st EXCEPT !.queue = Tail(st.queue)])

\* bfs: one pass of `while queue`
bfs_pass(G, st) ==
    LET current == Head(st.queue)
    IN bfs_scan(G.neighbors[current], 1, current, [st EXCEPT !.queue = Tail(st.queue)])

\* the locals of bfs before the loop
bfs_start(start) ==
    [distances |-> (start :> 0),
     parents   |-> (start :> None),
     queue     |-> <<start>>,
     visited   |-> {start}]

\* dfs_iterative and dfs_iterative_from_vertex: one pass of `while stack`
dfs_iter_pass(G, st) ==
    LET current == st.stack[Len(st.stack)]
        popped  == SubSeq(st.stack, 1, Len(st.stack) - 1)
    IN IF current \notin st.visited
       THEN LET visited == st.visited \cup {current}
            IN [visited |-> visited,
                result  |-> Append(st.result, current),
                stack   |-> push_unvisited(popped, Reverse(G.neighbors[current]), visited)]
       ELSE [st EXCEPT !.stack = popped]

\* _dfs_component: one pass of `while stack`
dfs_component_pass(G, st) ==
    LET current == st.stack[Len(st.stack)]
        popped  == SubSeq(st.stack, 1, Len(st.stack) - 1)
    IN IF current \notin st.visited
       THEN LET visited == st.visited \cup {current}
            IN [visited |-> visited,
                result  |-> Append(st.result, current),
                stack   |-> push_unvisited(popped, G.neighbors[current], visited)]
       ELSE [st EXCEPT !.stack = popped]

\* the locals of a stack traversal that starts at `start` with the set `visited`
stack_start(start, visited) == [visited |-> visited, stack |-> <<start>>, result |-> << >>]

\* topological_sort: the locals before `while queue`
kahn_start(G) ==
    LET in_degree == in_degree_loop(G, 1, [k \in 1..Len(G.vertices) |-> <<G.vertices[k], 0>>])
    IN [in_degree |-> in_degree, queue |-> zero_in_degree(in_degree), result |-> << >>]

\* topological_sort: one pass of `while queue`
kahn_pass(G, st) ==
    LET current == Head(st.queue)
    IN kahn_scan(G.neighbors[current], 1,
                 [st EXCEPT !.queue = Tail(st.queue),
                            !.result = Append(st.result, current)])

\* topological_sort_dfs: the call dfs(vertex) up to its for loop, made from the
\* frame on top of st.frames (or from the loop over the vertices when there is
\* none); a frame is a call of dfs that is in its for loop, at entry i of nb
topo_dfs_call(G, vertex, st) ==
    IF vertex \in st.rec_stack THEN [st EXCEPT !.ok = FALSE]
    ELSE IF vertex \in st.visited
         THEN IF st.frames = << >> THEN st
              ELSE [st EXCEPT !.frames[Len(st.frames)].i = @ + 1]
    ELSE [st EXCEPT !.visited = @ \cup {vertex},
                    !.rec_stack = @ \cup {vertex},
                    !.frames = Append(@, [vertex |-> vertex, nb |-> G.neighbors[vertex],
                                          i |-> 1])]

\* topological_sort_dfs: the for loop of the top frame is over: rec_stack.remove,
\* result.append, return True to the caller, which moves on to its next entry
topo_dfs_return(st) ==
    LET top == st.frames[Len(st.frames)]
        rest == SubSeq(st.frames, 1, Len(st.frames) - 1)
    IN [st EXCEPT !.rec_stack = @ \ {top.vertex},
                  !.result = Append(@, top.vertex),
                  !.frames = IF rest = << >> THEN rest
                             ELSE [rest EXCEPT ![Len(rest)].i = @ + 1]]

\* ----- the store after a read ------------------------------------------------
\* AdjacencyList.graph is a defaultdict(list): subscripting a missing key would
\* insert it, a membership test or .get() does not. Each read is modelled by
\* the store it leaves behind.
\* has_edge, get_weight, get_neighbors index self.vertices (a plain dict) and
\* self.matrix only after the membership tests, and assign nothing
M_after_has_edge(g, u, v) == g

M_after_get_weight(g, u, v) == M_after_has_edge(g, u, v)

M_after_get_neighbors(g, vertex) == g

\* has_edge with `self.graph[u]` reached without the `u not in self.graph` test
L_after_has_edge_unguarded(g, u, v) ==
    IF DictHas(g.graph, u) THEN g
    ELSE [g EXCEPT !.graph = Append(g.graph, <<u, << >> >>)]

\* `if u not in self.graph: return False` comes before `self.graph[u]`
L_after_has_edge(g, u, v) == g

\* `if u not in self.graph: return None` comes before `self.graph[u]`
L_after_get_weight(g, u, v) == g

\* get_neighbors written as `list(self.graph[vertex])`
L_after_get_neighbors_subscript(g, vertex) ==
    IF DictHas(g.graph, vertex) THEN g
    ELSE [g EXCEPT !.graph = Append(g.graph, <<vertex, << >> >>)]

\* `list(self.graph.get(vertex, []))`: .get() never inserts, list() copies
L_after_get_neighbors(g, vertex) == g

\* the store after get_neighbors was called for every key of a set
RECURSIVE M_after_reads(_, _)
M_after_reads(g, keys) ==
    IF keys = {} THEN g
    ELSE LET k == CHOOSE x \in keys : TRUE
         IN M_after_reads(M_after_get_neighbors(g, k), keys \ {k})

RECURSIVE L_after_reads(_, _)
L_after_reads(g, keys) ==
    IF keys = {} THEN g
    ELSE LET k == CHOOSE x \in keys : TRUE
         IN L_after_reads(L_after_get_neighbors(g, k), keys \ {k})

\* the algorithms, by name
StartAlgorithms == {"bfs", "dfs_recursive", "dfs_iterative", "dijkstra"}
PathAlgorithms == {"bfs_path", "dijkstra_path"}
GraphAlgorithms == {"dfs_all_components", "find_connected_components",
                    "is_connected", "topological_sort", "topological_sort_dfs"}

\* the keys an algorithm passes to graph.get_neighbors: bfs every vertex it
\* dequeues, the DFS variants every vertex they list, dijkstra every vertex
\* it pops (start and those whose distance was lowered), the component
\* searches every vertex, the sorts every vertex at most (none when they
\* raise); get_vertices() returns a fresh list and `end` is looked up only
\* in the algorithm's own dicts
QueriedKeys(name, G, start) ==
    CASE name \in {"bfs", "bfs_path"} -> DOMAIN bfs(G, start).distances
      [] name = "dfs_recursive" -> Range(dfs_recursive(G, start))
      [] name = "dfs_iterative" -> Range(dfs_iterative(G, start))
      [] name \in {"dijkstra", "dijkstra_path"} ->
            {start} \cup {v \in Range(G.vertices) : dijkstra(G, start).distances[v] # Inf}
      [] name \in {"dfs_all_components", "find_connected_components", "is_connected"} ->
            Range(G.vertices)
      [] name \in {"topological_sort", "topological_sort_dfs"} ->
            IF G.directed THEN Range(G.vertices) ELSE {}

M_after_algorithm(name, g, start) == M_after_reads(g, QueriedKeys(name, M_view(g), start))

L_after_algorithm(name, g, start) == L_after_reads(g, QueriedKeys(name, L_view(g), start))

\* ----- state ---------------------------------------------------------------
VARIABLES am,    \* the AdjacencyMatrix store
          al,    \* the AdjacencyList store, given the same calls
          last,  \* the last call made on the stores (recorded under SpecTraced only)
          nops,  \* number of calls made so far
          run    \* the run of an algorithm in progress: its position and its locals

vars == <<am, al, last, nops, run>>

\* no algorithm is running
Idle == [alg |-> "none", pc |-> "idle"]

Init ==
    \E directed \in BOOLEAN :
        /\ am = M_init(directed)
        /\ al = L_init(directed)
        /\ last = [op |-> "init", u |-> None, v |-> None, w |-> None]
        /\ nops = 0
        /\ run = Idle

\* the store part of a call, on both stores
StoreAddVertex(vertex) ==
    /\ run.pc = "idle"
    /\ nops < MaxOps
    /\ am' = M_add_vertex(am, vertex)
    /\ al' = L_add_vertex(al, vertex)
    /\ nops' = nops + 1
    /\ UNCHANGED run

StoreAddEdge(u, v, weight) ==
    /\ run.pc = "idle"
    /\ nops < MaxOps
    /\ am' = M_add_edge(am, u, v, weight)
    /\ al' = L_add_edge(al, u, v, weight)
    /\ nops' = nops + 1
    /\ UNCHANGED run

StoreRemoveEdge(u, v) ==
    /\ run.pc = "idle"
    /\ nops < MaxOps
    /\ am' = M_remove_edge(am, u, v)
    /\ al' = L_remove_edge(al, u, v)
    /\ nops' = nops + 1
    /\ UNCHANGED run

AddVertex(vertex) == StoreAddVertex(vertex) /\ UNCHANGED last

AddEdge(u, v, weight) == StoreAddEdge(u, v, weight) /\ UNCHANGED last

RemoveEdge(u, v) == StoreRemoveEdge(u, v) /\ UNCHANGED last

Next ==
    \/ \E vertex \in Keys : AddVertex(vertex)
    \/ \E u \in Keys, v \in Keys, weight \in Weights : AddEdge(u, v, weight)
    \/ \E u \in Keys, v \in Keys : RemoveEdge(u, v)

\* the stores under any sequence of calls
Spec == Init /\ [][Next]_vars

\* add_edge(u, v) called without a weight: `weight: float = 1.0`
DefaultWeight == 1

AddEdgeDefault(u, v) == StoreAddEdge(u, v, DefaultWeight) /\ UNCHANGED last

UnweightedNext ==
    \/ \E vertex \in Keys : AddVertex(vertex)
    \/ \E u \in Keys, v \in Keys : AddEdgeDefault(u, v)
    \/ \E u \in Keys, v \in Keys : RemoveEdge(u, v)

\* the stores under any sequence of calls that leave the weight at its default,
\* for the algorithms that do not read the weights
SpecUnweighted == Init /\ [][UnweightedNext]_vars

\* the same calls, each one recorded in `last`
TracedAddVertex(vertex) ==
    /\ StoreAddVertex(vertex)
    /\ last' = [op |-> "add_vertex", u |-> vertex, v |-> None, w |-> None]

TracedAddEdge(u, v, weight) ==
    /\ StoreAddEdge(u, v, weight)
    /\ last' = [op |-> "add_edge", u |-> u, v |-> v, w |-> weight]

TracedRemoveEdge(u, v) ==
    /\ StoreRemoveEdge(u, v)
    /\ last' = [op |-> "remove_edge", u |-> u, v |-> v, w |-> None]

TracedNext ==
    \/ \E vertex \in Keys : TracedAddVertex(vertex)
    \/ \E u \in Keys, v \in Keys, weight \in Weights : TracedAddEdge(u, v, weight)
    \/ \E u \in Keys, v \in Keys : TracedRemoveEdge(u, v)

\* the stores under any sequence of calls, with the last call on record
SpecTraced == Init /\ [][TracedNext]_vars

\* reads of the stores and runs of the algorithms, counted as calls
HasEdgeCall(u, v) ==
    /\ nops < MaxOps
    /\ am' = M_after_has_edge(am, u, v)
    /\ al' = L_after_has_edge(al, u, v)
    /\ nops' = nops + 1
    /\ UNCHANGED <<last, run>>

GetWeightCall(u, v) ==
    /\ nops < MaxOps
    /\ am' = M_after_get_weight(am, u, v)
    /\ al' = L_after_get_weight(al, u, v)
    /\ nops' = nops + 1
    /\ UNCHANGED <<last, run>>

GetNeighborsCall(vertex) ==
    /\ nops < MaxOps
    /\ am' = M_after_get_neighbors(am, vertex)
    /\ al' = L_after_get_neighbors(al, vertex)
    /\ nops' = nops + 1
    /\ UNCHANGED <<last, run>>

\* name(graph, start), and name(graph, start, end) for the path searches
AlgorithmCall(name, start) ==
    /\ nops < MaxOps
    /\ am' = M_after_algorithm(name, am, start)
    /\ al' = L_after_algorithm(name, al, start)
    /\ nops' = nops + 1
    /\ UNCHANGED <<last, run>>

\* name(graph)
GraphAlgorithmCall(name) == AlgorithmCall(name, None)

CallsNext ==
    \/ \E vertex \in Keys : AddVertex(vertex)
    \/ \E u \in Keys, v \in Keys : AddEdgeDefault(u, v)
    \/ \E u \in Keys, v \in Keys : RemoveEdge(u, v)
    \/ \E u \in Keys, v \in Keys : HasEdgeCall(u, v)
    \/ \E u \in Keys, v \in Keys : GetWeightCall(u, v)
    \/ \E vertex \in Keys : GetNeighborsCall(vertex)
    \/ \E name \in StartAlgorithms \cup PathAlgorithms, start \in Keys :
          AlgorithmCall(name, start)
    \/ \E name \in GraphAlgorithms : GraphAlgorithmCall(name)

\* the stores under any sequence of writes, reads and algorithm runs
SpecCalls == Init /\ [][CallsNext]_vars

\* ----- runs of the algorithms, one step at a time ---------------------------
Stores == {"matrix", "list"}

\* the store a run was started on, as the algorithm sees it
RunGraph == IF run.store = "matrix" THEN M_view(am) ELSE L_view(al)

StoreView(store) == IF store = "matrix" THEN M_view(am) ELSE L_view(al)

\* dijkstra(graph, start) up to the first test of `while pq`
DijkstraStart(store, start) ==
    /\ run.pc = "idle"
    /\ run' = [alg |-> "dijkstra", store |-> store, start |-> start, pc |-> "while",
               st |-> dijkstra_start(StoreView(store), start),
               current |-> None, current_dist |-> 0, nb |-> << >>, i |-> 0,
               finalized |-> << >>]
    /\ UNCHANGED <<am, al, last, nops>>

DijkstraPop ==
    /\ run.alg = "dijkstra" /\ run.pc = "while"
    /\ run.st.pq # << >>
    /\ run' = dijkstra_pop(RunGraph, run)
    /\ UNCHANGED <<am, al, last, nops>>

DijkstraRelax ==
    /\ run.alg = "dijkstra" /\ run.pc = "for"
    /\ run' = [run EXCEPT !.st = dijkstra_relax(run.nb[run.i], run.current,
                                                run.current_dist, run.st),
                          !.i = run.i + 1,
                          !.pc = AfterEntry(run.nb, run.i + 1)]
    /\ UNCHANGED <<am, al, last, nops>>

\* `return distances, parents`
DijkstraReturn ==
    /\ run.alg = "dijkstra" /\ run.pc = "while"
    /\ run.st.pq = << >>
    /\ run' = [run EXCEPT !.pc = "done"]
    /\ UNCHANGED <<am, al, last, nops>>

\* the caller goes on after the call returned
RunOver ==
    /\ run.pc = "done"
    /\ run' = Idle
    /\ UNCHANGED <<am, al, last, nops>>

DijkstraNext ==
    \/ \E vertex \in Keys : AddVertex(vertex)
    \/ \E u \in Keys, v \in Keys, weight \in Weights : AddEdge(u, v, weight)
    \/ \E u \in Keys, v \in Keys : RemoveEdge(u, v)
    \/ \E store \in Stores, start \in Keys : DijkstraStart(store, start)
    \/ DijkstraPop
    \/ DijkstraRelax
    \/ DijkstraReturn
    \/ RunOver

\* the stores under any sequence of calls, and runs of dijkstra on them
SpecDijkstra == Init /\ [][DijkstraNext]_vars

\* a call that has returned (or raised): kind and value of what it gave back
Returned(value) ==
    [alg |-> run.alg, store |-> run.store, start |-> run.start, pc |-> "done",
     result |-> value]

RunOnly == UNCHANGED <<am, al, last, nops>>

\* bfs(graph, start); `enqueued` keeps every vertex that was put in the queue
BfsStart(store, start) ==
    /\ run.pc = "idle"
    /\ run' = [alg |-> "bfs", store |-> store, start |-> start, pc |-> "while",
               st |-> bfs_start(start), enqueued |-> <<start>>]
    /\ RunOnly

BfsPass ==
    /\ run.alg = "bfs" /\ run.pc = "while"
    /\ run.st.queue # << >>
    /\ LET after == bfs_pass(RunGraph, run.st)
       IN run' = [run EXCEPT !.st = after,
                             !.enqueued = @ \o SubSeq(after.queue, Len(run.st.queue),
                                                      Len(after.queue))]
    /\ RunOnly

BfsReturn ==
    /\ run.alg = "bfs" /\ run.pc = "while"
    /\ run.st.queue = << >>
    /\ run' = Returned([distances |-> run.st.distances, parents |-> run.st.parents])
    /\ RunOnly

\* dfs_iterative(graph, start)
DfsStart(store, start) ==
    /\ run.pc = "idle"
    /\ run' = [alg |-> "dfs_iterative", store |-> store, start |-> start, pc |-> "while",
               st |-> stack_start(start, {})]
    /\ RunOnly

DfsPass ==
    /\ run.alg = "dfs_iterative" /\ run.pc = "while"
    /\ run.st.stack # << >>
    /\ run' = [run EXCEPT !.st = dfs_iter_pass(RunGraph, run.st)]
    /\ RunOnly

DfsReturn ==
    /\ run.alg = "dfs_iterative" /\ run.pc = "while"
    /\ run.st.stack = << >>
    /\ run' = Returned(run.st.result)
    /\ RunOnly

\* dfs_all_components(graph) and find_connected_components(graph): the loop over
\* get_vertices() is at position k, st.visited is the set shared with the helper
ComponentSearches == {"dfs_all_components", "find_connected_components"}

ComponentsStart(name, store) ==
    /\ run.pc = "idle"
    /\ run' = [alg |-> name, store |-> store, start |-> None, pc |-> "for",
               vertices |-> StoreView(store).vertices, k |-> 1,
               st |-> [visited |-> {}, stack |-> << >>, result |-> << >>],
               components |-> << >>]
    /\ RunOnly

\* `for vertex in ...: if vertex not in visited:` and the entry of the helper
ComponentsNextVertex ==
    /\ run.alg \in ComponentSearches /\ run.pc = "for"
    /\ run.k <= Len(run.vertices)
    /\ run' = IF run.vertices[run.k] \notin run.st.visited
              THEN [run EXCEPT !.pc = "while",
                               !.st = stack_start(run.vertices[run.k], run.st.visited)]
              ELSE [run EXCEPT !.k = @ + 1]
    /\ RunOnly

ComponentsPass ==
    /\ run.alg \in ComponentSearches /\ run.pc = "while"
    /\ run.st.stack # << >>
    /\ run' = [run EXCEPT !.st = IF run.alg = "dfs_all_components"
                                 THEN dfs_iter_pass(RunGraph, run.st)
                                 ELSE dfs_component_pass(RunGraph, run.st)]
    /\ RunOnly

\* the helper returns; `components.append(component)`
ComponentsAppend ==
    /\ run.alg \in ComponentSearches /\ run.pc = "while"
    /\ run.st.stack = << >>
    /\ run' = [run EXCEPT !.components = Append(@, run.st.result),
                          !.k = @ + 1,
                          !.pc = "for"]
    /\ RunOnly

ComponentsReturn ==
    /\ run.alg \in ComponentSearches /\ run.pc = "for"
    /\ run.k > Len(run.vertices)
    /\ run' = Returned(run.components)
    /\ RunOnly

\* topological_sort(graph); `enqueued` keeps every vertex that was put in the queue
KahnStart(store) ==
    /\ run.pc = "idle"
    /\ run' = IF ~StoreView(store).directed
              THEN [alg |-> "topological_sort", store |-> store, start |-> None,
                    pc |-> "done", result |-> [kind |-> "ValueError", order |-> << >>]]
              ELSE LET st == kahn_start(StoreView(store))
                   IN [alg |-> "topological_sort", store |-> store, start |-> None,
                       pc |-> "while", st |-> st, enqueued |-> st.queue]
    /\ RunOnly

KahnPass ==
    /\ run.alg = "topological_sort" /\ run.pc = "while"
    /\ run.st.queue # << >>
    /\ LET after == kahn_pass(RunGraph, run.st)
       IN run' = [run EXCEPT !.st = after,
                             !.enqueued = @ \o SubSeq(after.queue, Len(run.st.queue),
                                                      Len(after.queue))]
    /\ RunOnly

KahnReturn ==
    /\ run.alg = "topological_sort" /\ run.pc = "while"
    /\ run.st.queue = << >>
    /\ run' = Returned(kahn_result(RunGraph, run.st.result))
    /\ RunOnly

\* topological_sort_dfs(graph)
TopoDfsStart(store) ==
    /\ run.pc = "idle"
    /\ run' = IF ~StoreView(store).directed
              THEN [alg |-> "topological_sort_dfs", store |-> store, start |-> None,
                    pc |-> "done", result |-> [kind |-> "ValueError", order |-> << >>]]
              ELSE [alg |-> "topological_sort_dfs", store |-> store, start |-> None,
                    pc |-> "for", vertices |-> StoreView(store).vertices, k |-> 1,
                    st |-> [visited |-> {}, rec_stack |-> {}, result |-> << >>,
                            ok |-> TRUE, frames |-> << >>]]
    /\ RunOnly

\* `for vertex in ...: if vertex not in visited: dfs(vertex)`
TopoDfsNextVertex ==
    /\ run.alg = "topological_sort_dfs" /\ run.pc = "for"
    /\ run.k <= Len(run.vertices)
    /\ run' = IF run.vertices[run.k] \notin run.st.visited
              THEN [run EXCEPT !.pc = "dfs",
                               !.st = topo_dfs_call(RunGraph, run.vertices[run.k], run.st)]
              ELSE [run EXCEPT !.k = @ + 1]
    /\ RunOnly

\* the top call of dfs is at an entry of its for loop: `if not dfs(neighbor):
\* return False`, which ends every call on the stack and returns None
TopoDfsNeighbor ==
    /\ run.alg = "topological_sort_dfs" /\ run.pc = "dfs"
    /\ LET top == run.st.frames[Len(run.st.frames)]
       IN /\ top.i <= Len(top.nb)
          /\ LET after == topo_dfs_call(RunGraph, top.nb[top.i][1], run.st)
             IN run' = IF ~after.ok THEN Returned([kind |-> "none", order |-> << >>])
                       ELSE [run EXCEPT !.st = after]
    /\ RunOnly

\* the top call of dfs is past the last entry of its for loop
TopoDfsFinish ==
    /\ run.alg = "topological_sort_dfs" /\ run.pc = "dfs"
    /\ LET top == run.st.frames[Len(run.st.frames)]
           after == topo_dfs_return(run.st)
       IN /\ top.i > Len(top.nb)
          /\ run' = IF after.frames = << >>
                    THEN [run EXCEPT !.st = after, !.pc = "for", !.k = @ + 1]
                    ELSE [run EXCEPT !.st = after]
    /\ RunOnly

TopoDfsReturn ==
    /\ run.alg = "topological_sort_dfs" /\ run.pc = "for"
    /\ run.k > Len(run.vertices)
    /\ run' = Returned(topo_dfs_result(run.st.result))
    /\ RunOnly

\* an algorithm is called
RunStart ==
    \/ \E store \in Stores, start \in Keys : BfsStart(store, start)
    \/ \E store \in Stores, start \in Keys : DfsStart(store, start)
    \/ \E store \in Stores, start \in Keys : DijkstraStart(store, start)
    \/ \E name \in ComponentSearches, store \in Stores : ComponentsStart(name, store)
    \/ \E store \in Stores : KahnStart(store)
    \/ \E store \in Stores : TopoDfsStart(store)

\* the running algorithm takes its next step
RunStep ==
    \/ BfsPass \/ BfsReturn
    \/ DfsPass \/ DfsReturn
    \/ DijkstraPop \/ DijkstraRelax \/ DijkstraReturn
    \/ ComponentsNextVertex \/ ComponentsPass \/ ComponentsAppend \/ ComponentsReturn
    \/ KahnPass \/ KahnReturn
    \/ TopoDfsNextVertex \/ TopoDfsNeighbor \/ TopoDfsFinish \/ TopoDfsReturn

RunsNext ==
    \/ \E vertex \in Keys : AddVertex(vertex)
    \/ \E u \in Keys, v \in Keys : AddEdgeDefault(u, v)
    \/ \E u \in Keys, v \in Keys : RemoveEdge(u, v)
    \/ RunStart
    \/ RunStep
    \/ RunOver

\* the stores under any sequence of calls at the default weight, and runs of the
\* algorithms on them; a call that was entered keeps executing
SpecRuns == Init /\ [][RunsNext]_vars /\ WF_vars(RunStep)

\* ===== properties of the stores ==============================================

\* entries of an edge list that stand for the pair (u, v)
EntriesFor(edges, directed, u, v) ==
    {i \in 1..Len(edges) : edge_key(directed, edges[i][1], edges[i][2]) = edge_key(directed, u, v)}

\* what C1 asks of one store after add_edge(u, v, w2) follows add_edge(u, v, w1):
\* weight w2, one get_edges() entry for the pair and it carries w2, edge count as before
OverwriteHolds(weight_after, edges_after, count_before, directed, u, v, w2) ==
    /\ weight_after = w2
    /\ Cardinality(EntriesFor(edges_after, directed, u, v)) = 1
    /\ \A i \in EntriesFor(edges_after, directed, u, v) : edges_after[i][3] = w2
    /\ Len(edges_after) = count_before

\* a step that calls add_edge(u, v, w2) right after a call add_edge(u, v, w1)
SecondInsert(u, v, w2) ==
    /\ last.op = "add_edge" /\ last.u = u /\ last.v = v
    /\ TracedAddEdge(u, v, w2)

\* C1: in both backends, add_edge(u, v, w1) followed by add_edge(u, v, w2)
\* overwrites the weight: get_weight(u, v) = w2, get_edges() has exactly one
\* entry for the pair and it carries w2, and get_edge_count() is unchanged.
C1_AddEdgeOverwrites ==
    [][\A u \in Keys, v \in Keys, w2 \in Weights :
          SecondInsert(u, v, w2) =>
            /\ OverwriteHolds(M_get_weight(am', u, v), M_get_edges(am'),
                              M_get_edge_count(am), am.directed, u, v, w2)
            /\ OverwriteHolds(L_get_weight(al', u, v), L_get_edges(al'),
                              L_get_edge_count(al), al.directed, u, v, w2)]_vars

\* the matrix half of C1 alone
C1_MatrixOverwrites ==
    [][\A u \in Keys, v \in Keys, w2 \in Weights :
          SecondInsert(u, v, w2) =>
            OverwriteHolds(M_get_weight(am', u, v), M_get_edges(am'),
                           M_get_edge_count(am), am.directed, u, v, w2)]_vars

NoDuplicateNeighbor(nb) ==
    \A i \in 1..Len(nb), j \in 1..Len(nb) : nb[i][1] = nb[j][1] => i = j

\* C2: in the list store, get_neighbors(x) holds at most one entry per
\* neighbor key, for every vertex x, after any sequence of calls.
C2_NoDuplicateEntries ==
    \A x \in Keys : NoDuplicateNeighbor(L_get_neighbors(al, x))

\* C3: has_edge(u, v) and get_weight(u, v) agree between the two backends for
\* every pair of keys, added or not.
C3_EdgeQueriesAgree ==
    \A u \in Keys, v \in Keys :
        /\ M_has_edge(am, u, v) = L_has_edge(al, u, v)
        /\ M_get_weight(am, u, v) = L_get_weight(al, u, v)

\* has_edge alone does agree
C3_HasEdgeAgrees ==
    \A u \in Keys, v \in Keys : M_has_edge(am, u, v) = L_has_edge(al, u, v)

\* C4: get_neighbors(x) is the identical ordered sequence of (neighbor, weight)
\* pairs in both backends, for every vertex x.
C4_NeighborsAgree ==
    \A x \in Keys : M_get_neighbors(am, x) = L_get_neighbors(al, x)

\* the neighbor keys, as a set, do agree
C4_NeighborKeysAgree ==
    \A x \in Keys :
        {e[1] : e \in Range(M_get_neighbors(am, x))}
          = {e[1] : e \in Range(L_get_neighbors(al, x))}

\* C7: in an undirected store of either backend, has_edge(u, v) = has_edge(v, u)
\* and get_weight(u, v) = get_weight(v, u) for every pair of keys.
C7_UndirectedSymmetry ==
    ~am.directed =>
        \A u \in Keys, v \in Keys :
            /\ M_has_edge(am, u, v) = M_has_edge(am, v, u)
            /\ M_get_weight(am, u, v) = M_get_weight(am, v, u)
            /\ L_has_edge(al, u, v) = L_has_edge(al, v, u)
            /\ L_get_weight(al, u, v) = L_get_weight(al, v, u)

\* witness of C7: an undirected pair u # v inserted twice with different
\* weights, so that the list holds two entries for it on each side
C7_Witness ==
    /\ ~al.directed
    /\ \E u \in Keys, v \in Keys :
          /\ u # v
          /\ Cardinality(Range(L_get_neighbors(al, u))) >= 2
          /\ Cardinality(Range(L_get_neighbors(al, v))) >= 2
          /\ L_has_edge(al, v, u) /\ M_has_edge(am, u, v)
          /\ M_get_weight(am, v, u) # L_get_weight(al, v, u)

\* ===== properties of the algorithms =========================================

\* C5: dijkstra(graph, start) returns the same distances map on both backends,
\* for every start vertex (the weights tried are all non-negative).
C5_DijkstraAgrees ==
    \A start \in Range(M_get_vertices(am)) :
        dijkstra(M_view(am), start).distances = dijkstra(L_view(al), start).distances

\* components compared as a set of vertex sets
ComponentSets(components) == {Range(components[i]) : i \in 1..Len(components)}

\* C6: bfs(graph, start) returns the same distances map on both backends for
\* every start, and dfs_all_components / find_connected_components return the
\* same set of components (each a vertex set) on both backends.
C6_BfsAndComponentsAgree ==
    /\ \A start \in Keys :
          bfs(M_view(am), start).distances = bfs(L_view(al), start).distances
    /\ ComponentSets(dfs_all_components(M_view(am)))
         = ComponentSets(dfs_all_components(L_view(al)))
    /\ ComponentSets(find_connected_components(M_view(am)))
         = ComponentSets(find_connected_components(L_view(al)))

\* witness of C6: the two stores enumerate some neighbors differently, BFS
\* reaches a second vertex and there are two components
C6_Witness ==
    /\ \E x \in Keys : M_get_neighbors(am, x) # L_get_neighbors(al, x)
    /\ \E s \in Keys : Cardinality(DOMAIN bfs(L_view(al), s).distances) >= 2
    /\ Len(dfs_all_components(L_view(al))) = 2
    /\ Len(find_connected_components(M_view(am))) = 2

\* C8: dfs_recursive(graph, start) and dfs_iterative(graph, start) return the
\* identical visitation-order list, for either backend and every start.
C8_DfsVariantsAgree ==
    \A start \in Keys :
        /\ dfs_recursive(M_view(am), start) = dfs_iterative(M_view(am), start)
        /\ dfs_recursive(L_view(al), start) = dfs_iterative(L_view(al), start)

\* witness of C8: start has neighbors a then b, and a itself leads to b, so
\* the explicit stack still holds b when b is visited from a
C8_Witness ==
    \E start \in Keys, a \in Keys, b \in Keys :
        /\ Cardinality({start, a, b}) = 3
        /\ L_get_neighbors(al, start) = << <<a, L_get_weight(al, start, a)>>,
                                            <<b, L_get_weight(al, start, b)>> >>
        /\ L_has_edge(al, a, b)
        /\ dfs_iterative(L_view(al), start) = <<start, a, b>>

\* ----- reference shortest distances: the least cost over all simple paths --
SetMin(S) == CHOOSE x \in S : \A y \in S : x <= y

\* every sequence of pairwise distinct keys (weights are non-negative, so a
\* cheapest path can be taken simple)
SimplePaths ==
    {p \in UNION {[1..n -> Keys] : n \in 1..Cardinality(Keys)} :
        \A i \in DOMAIN p, j \in DOMAIN p : p[i] = p[j] => i = j}

\* cheapest entry u -> v that get_neighbors(u) enumerates, Inf when there is none
CheapestEntry(G, u, v) ==
    SetMin({Inf} \cup {G.neighbors[u][i][2] :
                         i \in {k \in 1..Len(G.neighbors[u]) : G.neighbors[u][k][1] = v}})

\* total weight of path p from its i-th vertex on, Inf when a hop is missing
RECURSIVE PathCost(_, _, _)
PathCost(G, p, i) ==
    IF i >= Len(p) THEN 0
    ELSE LET hop == CheapestEntry(G, p[i], p[i + 1])
             rest == PathCost(G, p, i + 1)
         IN IF hop = Inf \/ rest = Inf THEN Inf ELSE hop + rest

\* least total weight of a path from start to v, Inf when there is none
MinDist(G, start, v) ==
    SetMin({Inf} \cup {PathCost(G, p, 1) :
                         p \in {q \in SimplePaths : q[1] = start /\ q[Len(q)] = v}})

\* distances is the map of least path weights from start exactly when
\*  - no entry u -> v can still relax v (so no path is cheaper than distances[v]), and
\*  - every finite distances[v] is the weight of an actual path: the parent
\*    chain of v leads back to start and each hop parents[x] -> x is an entry
\*    of weight distances[x] - distances[parents[x]].
\* MinDist above is the direct definition; C9_ReferenceAgrees checks dijkstra
\* against it.
NoEntryRelaxes(G, d) ==
    \A u \in DOMAIN d :
        d[u] # Inf =>
            \A i \in 1..Len(G.neighbors[u]) :
                d[G.neighbors[u][i][1]] <= d[u] + G.neighbors[u][i][2]

ParentHopTight(G, d, par, x) ==
    /\ par[x] \in DOMAIN d
    /\ d[par[x]] # Inf
    /\ <<x, d[x] - d[par[x]]>> \in Range(G.neighbors[par[x]])

DistanceAttained(G, start, d, par, v) ==
    /\ Head(walk_parents(par, v)) = start
    /\ \A x \in Range(walk_parents(par, v)) \ {start} : ParentHopTight(G, d, par, x)

DijkstraCorrectFrom(G, start, r) ==
    /\ DOMAIN r.distances = Range(G.vertices)
    /\ DOMAIN r.parents = Range(G.vertices)
    /\ r.distances[start] = 0
    /\ NoEntryRelaxes(G, r.distances)
    /\ \A v \in Range(G.vertices) :
          IF r.distances[v] # Inf
          THEN DistanceAttained(G, start, r.distances, r.parents, v)
          ELSE r.parents[v] = None

DijkstraCorrect(G) ==
    \A start \in Range(G.vertices) : DijkstraCorrectFrom(G, start, dijkstra(G, start))

DijkstraMatchesReference(G) ==
    \A start \in Range(G.vertices), v \in Range(G.vertices) :
        dijkstra(G, start).distances[v] = MinDist(G, start, v)

\* dijkstra against the direct definition of the least path weight
C9_ReferenceAgrees ==
    /\ DijkstraMatchesReference(M_view(am))
    /\ DijkstraMatchesReference(L_view(al))

\* C9: with non-negative weights and start in the store, dijkstra returns one
\* entry per store vertex, distances[start] = 0, distances[v] = the least total
\* weight of a path from start to v when v is reachable, and distances[v] = inf
\* with parents[v] = None when it is not. (A path takes any of the entries
\* get_neighbors enumerates.)
C9_DijkstraCorrect ==
    /\ DijkstraCorrect(M_view(am))
    /\ DijkstraCorrect(L_view(al))

\* witness of C9: a direct edge s -> v of weight 2 beaten by a detour of total
\* weight 0 through a third vertex, the same on both backends
C9_Witness ==
    \E s \in Keys, v \in Keys :
        /\ s # v
        /\ L_get_weight(al, s, v) = 2 /\ M_get_weight(am, s, v) = 2
        /\ dijkstra(L_view(al), s).distances[v] = 0
        /\ dijkstra(M_view(am), s).distances[v] = 0
        /\ dijkstra(L_view(al), s).parents[v] \notin {s, None}

\* sum of get_weight(a, b) over the consecutive pairs of a path
RECURSIVE PathWeight(_, _)
PathWeight(GetWeight(_, _), path) ==
    IF Len(path) < 2 THEN 0
    ELSE GetWeight(path[1], path[2]) + PathWeight(GetWeight, Tail(path))

DijkstraPathConsistent(G, HasEdge(_, _), GetWeight(_, _)) ==
    \A start \in Range(G.vertices), end \in Range(G.vertices) :
        LET r == dijkstra(G, start)
            p == dijkstra_path(G, start, end)
        IN IF r.distances[end] # Inf
           THEN /\ p.kind = "value"
                /\ p.path[1] = start
                /\ p.path[Len(p.path)] = end
                /\ \A i \in 1..(Len(p.path) - 1) : HasEdge(p.path[i], p.path[i + 1])
                /\ p.total = r.distances[end]
                /\ p.total = PathWeight(GetWeight, p.path)
           ELSE p.kind = "none"

M_has(u, v) == M_has_edge(am, u, v)
M_weight(u, v) == M_get_weight(am, u, v)
L_has(u, v) == L_has_edge(al, u, v)
L_weight(u, v) == L_get_weight(al, u, v)

\* C10: when distances[end] is finite dijkstra_path returns (path, total) with
\* path from start to end, every consecutive pair joined by has_edge, total =
\* distances[end] = the sum of get_weight over the consecutive pairs; when
\* distances[end] is inf it returns the absent value. Both backends.
C10_DijkstraPathConsistent ==
    /\ DijkstraPathConsistent(M_view(am), M_has, M_weight)
    /\ DijkstraPathConsistent(L_view(al), L_has, L_weight)

\* the matrix half of C10 alone
C10_MatrixPathConsistent == DijkstraPathConsistent(M_view(am), M_has, M_weight)

\* ----- reachability over the entries get_neighbors enumerates ---------------
\* the pairs <<u, v>> such that get_neighbors(u) has an entry for v
Entries(G) ==
    UNION {LET nb == G.neighbors[u]
           IN {<<u, nb[i][1]>> : i \in 1..Len(nb)} : u \in Keys}

SuccessorsIn(E, S) == {e[2] : e \in {x \in E : x[1] \in S}}

\* the vertices one entry away from a vertex of S
Successors(G, S) == SuccessorsIn(Entries(G), S)

\* the vertices a path of at most k entries of E reaches from start
RECURSIVE WithinHops(_, _, _)
WithinHops(E, start, k) ==
    IF k = 0 THEN {start}
    ELSE LET W == WithinHops(E, start, k - 1) IN W \cup SuccessorsIn(E, W)

Reachable(G, start) == WithinHops(Entries(G), start, Cardinality(Keys))

\* the least number of entries on a path from start to a reachable v
MinHops(G, start, v) ==
    LET E == Entries(G)
    IN CHOOSE k \in 0..Cardinality(Keys) :
           /\ v \in WithinHops(E, start, k)
           /\ \A j \in 0..(k - 1) : v \notin WithinHops(E, start, j)

BfsCorrectFrom(G, start) ==
    LET r == bfs(G, start)
    IN /\ DOMAIN r.distances = Reachable(G, start)
       /\ DOMAIN r.parents = DOMAIN r.distances
       /\ r.distances[start] = 0
       /\ r.parents[start] = None
       /\ \A v \in DOMAIN r.distances \ {start} :
             /\ r.distances[v] = MinHops(G, start, v)
             /\ r.parents[v] \in DOMAIN r.distances
             /\ v \in Successors(G, {r.parents[v]})
             /\ r.distances[v] = r.distances[r.parents[v]] + 1

\* C11: in both stores and from every start key, bfs returns distances and
\* parents over the same keys, exactly the vertices reachable from start;
\* start has distance 0 and no parent; every other key has the least number of
\* hops as its distance and a parent one hop closer that lists it as a
\* neighbor; vertices that are not reached are in neither map.
C11_BfsDistances ==
    \A start \in Keys :
        BfsCorrectFrom(M_view(am), start) /\ BfsCorrectFrom(L_view(al), start)

\* a vertex two hops from the start that does not reach the start back
C11_Witness ==
    \E s \in Keys, v \in Keys :
        /\ v \in DOMAIN bfs(L_view(al), s).distances
        /\ v \in DOMAIN bfs(M_view(am), s).distances
        /\ bfs(L_view(al), s).distances[v] = 2
        /\ bfs(M_view(am), s).distances[v] = 2
        /\ s \notin DOMAIN bfs(L_view(al), v).distances

BfsPathCorrect(G, HasEdge(_, _)) ==
    \A start \in Keys, end \in Keys :
        LET p == bfs_path(G, start, end)
        IN IF end \in Reachable(G, start)
           THEN /\ p.kind = "value"
                /\ Len(p.path) >= 1
                /\ p.path[1] = start
                /\ p.path[Len(p.path)] = end
                /\ \A i \in 1..(Len(p.path) - 1) :
                      /\ HasEdge(p.path[i], p.path[i + 1])
                      /\ p.path[i + 1] \in Successors(G, {p.path[i]})
                /\ Len(p.path) = bfs(G, start).distances[end] + 1
                /\ Len(p.path) = MinHops(G, start, end) + 1
           ELSE p.kind = "none"

\* C12: in both stores and for every pair of keys, when end is reachable from
\* start bfs_path returns a list that begins with start, ends with end, joins
\* every consecutive pair by an edge and has distances[end] + 1 vertices, the
\* fewest possible; when end is not reached it returns the absent value.
C12_BfsPath ==
    BfsPathCorrect(M_view(am), M_has) /\ BfsPathCorrect(L_view(al), L_has)

\* a three-vertex path one way and no path back
C12_Witness ==
    \E s \in Keys, e \in Keys :
        /\ Len(bfs_path(L_view(al), s, e).path) = 3
        /\ Len(bfs_path(M_view(am), s, e).path) = 3
        /\ bfs_path(L_view(al), e, s).kind = "none"
        /\ bfs_path(M_view(am), e, s).kind = "none"

PathQueriesAbsent(G, starts, ends) ==
    \A start \in starts, end \in ends :
        end \notin Reachable(G, start) =>
            /\ bfs_path(G, start, end).kind = "none"
            /\ dijkstra_path(G, start, end).kind = "none"

\* C13: in both stores and for every pair of keys, added to the store or not,
\* when no path leads from start to end both bfs_path and dijkstra_path
\* return the absent value and neither raises.
C13_PathQueriesNeverRaise ==
    PathQueriesAbsent(M_view(am), Keys, Keys) /\ PathQueriesAbsent(L_view(al), Keys, Keys)

\* the same, for an end key that is a vertex of the store (any start key)
C13_StoredEndNeverRaises ==
    /\ PathQueriesAbsent(M_view(am), Keys, Range(M_get_vertices(am)))
    /\ PathQueriesAbsent(L_view(al), Keys, Range(L_get_vertices(al)))

\* ----- orderings of a directed graph -------------------------------------
\* the vertices a path of at least one entry reaches from u
ReachableByEdge(G, u) == UNION {Reachable(G, x) : x \in Successors(G, {u})}

HasCycle(G) == \E v \in Range(G.vertices) : v \in ReachableByEdge(G, v)

IndexOf(order, v) == CHOOSE i \in 1..Len(order) : order[i] = v

\* order holds every vertex of G exactly once, and every entry u -> v has u
\* before v
IsTopologicalOrder(G, order) ==
    /\ Range(order) = Range(G.vertices)
    /\ Len(order) = Cardinality(Range(G.vertices))
    /\ \A u \in Range(G.vertices) :
          \A v \in Successors(G, {u}) : IndexOf(order, u) < IndexOf(order, v)

SortCorrect(G, r) ==
    IF HasCycle(G) THEN r.kind = "none"
    ELSE r.kind = "value" /\ IsTopologicalOrder(G, r.order)

\* C14: on both directed stores, topological_sort returns, for an acyclic
\* graph, a list with every vertex exactly once in which the source of every
\* edge comes before its target, and for a graph with a directed cycle (a
\* self-loop included) the absent result, never a partial order.
C14_KahnSort ==
    am.directed =>
        /\ SortCorrect(M_view(am), topological_sort(M_view(am)))
        /\ SortCorrect(L_view(al), topological_sort(L_view(al)))

\* a chain of three vertices entered against the order of the keys' insertion
C14_Witness ==
    /\ am.directed
    /\ topological_sort(L_view(al)).kind = "value"
    /\ Len(topological_sort(L_view(al)).order) = 3
    /\ topological_sort(L_view(al)).order # L_get_vertices(al)
    /\ topological_sort(M_view(am)).order # M_get_vertices(am)
    /\ \E u \in Keys : Len(L_get_neighbors(al, u)) = 2

\* a cycle hanging off an acyclic prefix: part of the graph can be ordered
C14_CycleWitness ==
    /\ am.directed
    /\ topological_sort(L_view(al)).kind = "none"
    /\ topological_sort(M_view(am)).kind = "none"
    /\ zero_in_degree(in_degree_loop(L_view(al), 1,
            [k \in 1..Len(al.graph) |-> <<al.graph[k][1], 0>>])) # << >>

\* C15: on both directed stores, topological_sort_dfs returns, for an acyclic
\* graph, a list with every vertex exactly once in which the source of every
\* edge comes before its target, and for a graph with a directed cycle (a
\* self-loop included) the absent result; it returns an ordering exactly when
\* topological_sort does.
C15_DfsSort ==
    am.directed =>
        /\ SortCorrect(M_view(am), topological_sort_dfs(M_view(am)))
        /\ SortCorrect(L_view(al), topological_sort_dfs(L_view(al)))
        /\ topological_sort_dfs(M_view(am)).kind = topological_sort(M_view(am)).kind
        /\ topological_sort_dfs(L_view(al)).kind = topological_sort(L_view(al)).kind

\* three ordered vertices, in an order other than Kahn's
C15_Witness ==
    /\ am.directed
    /\ topological_sort_dfs(L_view(al)).kind = "value"
    /\ topological_sort_dfs(M_view(am)).kind = "value"
    /\ Len(topological_sort_dfs(L_view(al)).order) = 3
    /\ L_get_edge_count(al) >= 2
    /\ topological_sort_dfs(L_view(al)).order # topological_sort(L_view(al)).order

\* C16: on both stores created with directed=False, whatever they hold,
\* topological_sort and topological_sort_dfs signal ValueError and return no
\* ordering; on directed stores they never signal it.
C16_UndirectedIsUsageError ==
    /\ (topological_sort(M_view(am)).kind = "ValueError") <=> ~am.directed
    /\ (topological_sort(L_view(al)).kind = "ValueError") <=> ~al.directed
    /\ (topological_sort_dfs(M_view(am)).kind = "ValueError") <=> ~am.directed
    /\ (topological_sort_dfs(L_view(al)).kind = "ValueError") <=> ~al.directed
    /\ ~am.directed => /\ topological_sort(M_view(am)).order = << >>
                       /\ topological_sort_dfs(M_view(am)).order = << >>
    /\ ~al.directed => /\ topological_sort(L_view(al)).order = << >>
                       /\ topological_sort_dfs(L_view(al)).order = << >>

\* an undirected store with edges, for which both sorts signal the error
C16_Witness ==
    /\ ~am.directed /\ ~al.directed
    /\ L_get_edge_count(al) >= 2 /\ M_get_edge_count(am) >= 2
    /\ topological_sort(L_view(al)).kind = "ValueError"
    /\ topological_sort_dfs(M_view(am)).kind = "ValueError"

\* ----- connectivity that ignores the direction of the entries ----------------
\* the vertices one entry away from a vertex of S, in either direction
WeakSuccessors(G, S) ==
    Successors(G, S) \cup {u \in Range(G.vertices) : Successors(G, {u}) \cap S # {}}

RECURSIVE WeakWithinHops(_, _, _)
WeakWithinHops(G, start, k) ==
    IF k = 0 THEN {start}
    ELSE LET W == WeakWithinHops(G, start, k - 1) IN W \cup WeakSuccessors(G, W)

WeaklyReachable(G, start) == WeakWithinHops(G, start, Cardinality(Keys))

WeakComponents(G) == {WeaklyReachable(G, v) : v \in Range(G.vertices)}

\* C17: on both directed stores, after any sequence of calls, two vertices are
\* in the same component returned by find_connected_components iff a path
\* that ignores the direction of the edges joins them.
C17_WeakComponents ==
    am.directed =>
        /\ ComponentSets(find_connected_components(M_view(am))) = WeakComponents(M_view(am))
        /\ ComponentSets(find_connected_components(L_view(al))) = WeakComponents(L_view(al))

IsIsolated(G, v) == Successors(G, {v}) = {} /\ v \notin Successors(G, Range(G.vertices))

IsConnectedCorrect(G) ==
    LET components == find_connected_components(G)
    IN /\ is_connected(G) <=>
             \/ G.vertices = << >>
             \/ Len(components) = 1 /\ Range(components[1]) = Range(G.vertices)
       /\ ~G.directed =>
             /\ is_connected(G) <=>
                   \A u \in Range(G.vertices), v \in Range(G.vertices) :
                       v \in Reachable(G, u)
             /\ \A v \in Range(G.vertices) :
                   IsIsolated(G, v) =>
                       /\ \E i \in 1..Len(components) : components[i] = <<v>>
                       /\ Len(G.vertices) >= 2 => ~is_connected(G)

\* C18: on both stores, is_connected is true iff the store is empty or
\* find_connected_components returns exactly one component holding every
\* vertex; on an undirected store that is iff every vertex is reachable from
\* every other, and an isolated vertex forms a component of its own, which
\* makes a store with any other vertex not connected.
C18_IsConnected ==
    IsConnectedCorrect(M_view(am)) /\ IsConnectedCorrect(L_view(al))

\* an undirected store with one edge and an isolated third vertex
C18_Witness ==
    /\ ~al.directed
    /\ Len(L_get_vertices(al)) = 3
    /\ \E v \in Keys : v \in Range(L_get_vertices(al)) /\ IsIsolated(L_view(al), v)
    /\ Len(find_connected_components(L_view(al))) = 2
    /\ Len(find_connected_components(M_view(am))) = 2
    /\ ~is_connected(L_view(al)) /\ ~is_connected(M_view(am))

RECURSIVE Flatten(_)
Flatten(lists) == IF lists = << >> THEN << >> ELSE Head(lists) \o Flatten(Tail(lists))

ComponentPartition(G) ==
    LET components == dfs_all_components(G)
        all == Flatten(components)
    IN /\ Range(all) = Range(G.vertices)
       /\ Len(all) = Len(G.vertices)
       /\ \A i \in 1..Len(components) :
             /\ components[i] # << >>
             /\ \A x \in Range(components[i]) :
                   IndexOf(G.vertices, components[i][1]) <= IndexOf(G.vertices, x)
             /\ \A j \in (i + 1)..Len(components) :
                   IndexOf(G.vertices, components[i][1])
                       < IndexOf(G.vertices, components[j][1])
       /\ ~G.directed =>
             \A u \in Range(G.vertices), v \in Range(G.vertices) :
                 (\E i \in 1..Len(components) : {u, v} \subseteq Range(components[i]))
                     <=> v \in Reachable(G, u)

\* C19: on both stores, the components dfs_all_components returns hold every
\* vertex of the store exactly once between them, appear in the order in which
\* get_vertices enumerates their first vertices, and on an undirected store put
\* two vertices together iff one is reachable from the other.
C19_ComponentPartition ==
    ComponentPartition(M_view(am)) /\ ComponentPartition(L_view(al))

\* a directed store where a later component has an edge into an earlier one
C19_Witness ==
    LET components == dfs_all_components(L_view(al))
    IN /\ al.directed
       /\ dfs_all_components(M_view(am)) = components
       /\ \E i \in 1..Len(components), j \in 1..Len(components) :
             /\ i < j
             /\ Successors(L_view(al), Range(components[j])) \cap Range(components[i]) # {}

\* order lists exactly the vertices of S, each once, starting with start
ListsOnce(order, S, start) ==
    /\ Range(order) = S
    /\ Len(order) = Cardinality(S)
    /\ order[1] = start

VisitsReachable(G, start) ==
    /\ ListsOnce(dfs_recursive(G, start), Reachable(G, start), start)
    /\ ListsOnce(dfs_iterative(G, start), Reachable(G, start), start)
    /\ DOMAIN bfs(G, start).distances = Reachable(G, start)
    /\ (~G.directed /\ start \in Range(G.vertices) /\ is_connected(G)) =>
          /\ Len(dfs_recursive(G, start)) = Len(G.vertices)
          /\ Len(dfs_iterative(G, start)) = Len(G.vertices)
          /\ Cardinality(DOMAIN bfs(G, start).distances) = Len(G.vertices)

\* C20: on both stores and from every start key, dfs_recursive, dfs_iterative
\* and the keys of bfs each hold exactly the vertices reachable from start,
\* each once, with start first in both DFS lists; on a connected undirected
\* store of n vertices each holds n distinct vertices.
C20_VisitationComplete ==
    \A start \in Keys :
        VisitsReachable(M_view(am), start) /\ VisitsReachable(L_view(al), start)

\* a start with two neighbors, the second already visited through the first
C20_Witness ==
    \E s \in Keys, x \in Keys, y \in Keys :
        /\ Cardinality({s, x, y}) = 3
        /\ {x, y} \subseteq Successors(L_view(al), {s})
        /\ {x, y} \subseteq Successors(M_view(am), {s})
        /\ dfs_recursive(L_view(al), s) = <<s, x, y>>
        /\ dfs_recursive(M_view(am), s) = <<s, x, y>>
        /\ y \in Successors(L_view(al), {x})

\* ----- what a caller can observe of a store --------------------------------
M_observed(g) ==
    <<M_get_vertices(g), M_get_edges(g), [x \in Keys |-> M_get_neighbors(g, x)]>>

L_observed(g) ==
    <<L_get_vertices(g), L_get_edges(g), [x \in Keys |-> L_get_neighbors(g, x)]>>

LeavesStoresAlone(name, start) ==
    /\ M_observed(M_after_algorithm(name, am, start)) = M_observed(am)
    /\ L_observed(L_after_algorithm(name, al, start)) = L_observed(al)

AbsentOnBoth(u, v) ==
    /\ ~M_has_edge(am, u, v) /\ ~L_has_edge(al, u, v)
    /\ M_get_weight(am, u, v) = None /\ L_get_weight(al, u, v) = None
    /\ M_remove_edge(am, u, v) = am /\ L_remove_edge(al, u, v) = al
    /\ M_after_has_edge(am, u, v) = am /\ L_after_has_edge(al, u, v) = al
    /\ M_after_get_weight(am, u, v) = am /\ L_after_get_weight(al, u, v) = al

NoNeighborsOnBoth(u) ==
    /\ M_get_neighbors(am, u) = << >> /\ L_get_neighbors(al, u) = << >>
    /\ M_after_get_neighbors(am, u) = am /\ L_after_get_neighbors(al, u) = al

\* C22: in both stores and every reachable state, for keys u, v of which one
\* was never added, has_edge(u, v) is False, get_weight(u, v) is None,
\* remove_edge(u, v) changes nothing, and for a never-added u
\* get_neighbors(u) is empty; none of these calls changes the store, so none
\* adds u or v as a vertex.
C22_NeverAddedKeysAbsent ==
    \A u \in Keys, v \in Keys :
        /\ (u \notin Range(M_get_vertices(am)) \/ v \notin Range(M_get_vertices(am)))
               => AbsentOnBoth(u, v) /\ AbsentOnBoth(v, u)
        /\ u \notin Range(M_get_vertices(am)) => NoNeighborsOnBoth(u)
        /\ Range(L_get_vertices(al)) = Range(M_get_vertices(am))

\* a store with an edge from u, asked about a never-added v
C22_Witness ==
    \E u \in Keys, v \in Keys :
        /\ v \notin Range(L_get_vertices(al)) /\ v \notin Range(M_get_vertices(am))
        /\ Len(L_get_neighbors(al, u)) >= 2
        /\ Len(M_get_neighbors(am, u)) >= 1
        /\ L_remove_edge(al, u, v) = al /\ L_remove_edge(al, v, u) = al
        /\ ~L_has_edge(al, v, u) /\ L_get_weight(al, u, v) = None

\* the keys a call passes to add_vertex or as an endpoint to add_edge
KeysAdded(call) ==
    IF call.op = "add_vertex" THEN {call.u}
    ELSE IF call.op = "add_edge" THEN {call.u, call.v}
    ELSE {}

\* vertices after a call: those before, in the same places, then the new keys
VerticesGrowBy(before, after, count_after, keys) ==
    /\ Range(after) = Range(before) \cup keys
    /\ Len(after) = Cardinality(Range(after))
    /\ count_after = Len(after)
    /\ Len(after) >= Len(before)
    /\ SubSeq(after, 1, Len(before)) = before

VertexSetStep ==
    /\ VerticesGrowBy(M_get_vertices(am), M_get_vertices(am'),
                      M_get_vertex_count(am'), KeysAdded(last'))
    /\ VerticesGrowBy(L_get_vertices(al), L_get_vertices(al'),
                      L_get_vertex_count(al'), KeysAdded(last'))
    /\ (last'.op = "add_vertex" /\ last'.u \in Range(M_get_vertices(am))) =>
          /\ am' = am /\ al' = al
          /\ M_observed(am') = M_observed(am) /\ L_observed(al') = L_observed(al)
    /\ last'.op = "remove_edge" =>
          /\ M_get_vertices(am') = M_get_vertices(am)
          /\ L_get_vertices(al') = L_get_vertices(al)

\* C23: both stores start with no vertex, and every call leaves get_vertices()
\* free of repetitions and equal to the vertices before it plus the keys it
\* passed to add_vertex or as endpoints to add_edge, with get_vertex_count()
\* their number: so the vertices are exactly the keys ever added, their number
\* never decreases, remove_edge removes none, and add_vertex of a present key
\* leaves vertices, edges and weights as they were.
C23_VertexSet ==
    /\ M_get_vertices(am) = << >> /\ L_get_vertices(al) = << >>
    /\ M_get_vertex_count(am) = 0 /\ L_get_vertex_count(al) = 0
    /\ [][VertexSetStep]_vars

\* add_vertex just called for a key that already had edges
C23_Witness ==
    /\ last.op = "add_vertex"
    /\ Len(L_get_neighbors(al, last.u)) >= 2
    /\ Len(M_get_neighbors(am, last.u)) >= 1

\* has_edge and get_weight of a pair are the same in the primed state
PairUnchanged(x, y) ==
    /\ M_has_edge(am', x, y) = M_has_edge(am, x, y)
    /\ M_get_weight(am', x, y) = M_get_weight(am, x, y)
    /\ L_has_edge(al', x, y) = L_has_edge(al, x, y)
    /\ L_get_weight(al', x, y) = L_get_weight(al, x, y)

RemoveEdgeStep(u, v) ==
    /\ ~M_has_edge(am', u, v) /\ M_get_weight(am', u, v) = None
    /\ ~L_has_edge(al', u, v) /\ L_get_weight(al', u, v) = None
    /\ ~am.directed => ~M_has_edge(am', v, u) /\ ~L_has_edge(al', v, u)
    /\ \A x \in Keys, y \in Keys :
          (<<x, y>> # <<u, v>> /\ (am.directed \/ <<x, y>> # <<v, u>>))
              => PairUnchanged(x, y)
    /\ ~M_has_edge(am, u, v) => am' = am
    /\ ~L_has_edge(al, u, v) => al' = al

\* C24: in both stores, after remove_edge(u, v) has_edge(u, v) is False and
\* get_weight(u, v) is None, on an undirected store has_edge(v, u) is False
\* too, has_edge and get_weight of every other pair are as before, and when
\* the edge was absent the whole store is as before.
C24_RemoveEdge ==
    [][last'.op = "remove_edge" => RemoveEdgeStep(last'.u, last'.v)]_vars

\* remove_edge(u, v) just called on a store where u keeps another edge
C24_Witness ==
    /\ last.op = "remove_edge"
    /\ last.u # last.v
    /\ {last.u, last.v} \subseteq Range(L_get_vertices(al))
    /\ Len(L_get_vertices(al)) = 3
    /\ L_get_neighbors(al, last.u) # << >>
    /\ M_get_neighbors(am, last.u) # << >>
    /\ ~L_has_edge(al, last.u, last.v)

\* the edges of a store: ordered pairs when directed, unordered pairs when not
EdgePairs(directed, HasEdge(_, _)) ==
    IF directed
    THEN {{<<1, p[1]>>, <<2, p[2]>>} : p \in {q \in Keys \X Keys : HasEdge(q[1], q[2])}}
    ELSE {{<<0, p[1]>>, <<0, p[2]>>} : p \in {q \in Keys \X Keys : HasEdge(q[1], q[2])}}

\* the pair a triple of get_edges() stands for
PairOf(directed, e) ==
    IF directed THEN {<<1, e[1]>>, <<2, e[2]>>} ELSE {<<0, e[1]>>, <<0, e[2]>>}

EdgesEnumerated(edges, count, directed, HasEdge(_, _), GetWeight(_, _)) ==
    /\ \A i \in 1..Len(edges) :
          /\ HasEdge(edges[i][1], edges[i][2])
          /\ edges[i][3] = GetWeight(edges[i][1], edges[i][2])
    /\ {PairOf(directed, edges[i]) : i \in 1..Len(edges)} = EdgePairs(directed, HasEdge)
    /\ Len(edges) = Cardinality(EdgePairs(directed, HasEdge))
    /\ count = Cardinality(EdgePairs(directed, HasEdge))

\* C25: in both stores and every reachable state, get_edges() holds exactly
\* one triple per edge of the store (per unordered pair with has_edge when
\* undirected, self-loops once; per ordered pair when directed), the weight
\* of each triple is get_weight of its pair, and get_edge_count() is the
\* number of those pairs.
C25_EdgeEnumeration ==
    /\ EdgesEnumerated(M_get_edges(am), M_get_edge_count(am), am.directed, M_has, M_weight)
    /\ EdgesEnumerated(L_get_edges(al), L_get_edge_count(al), al.directed, L_has, L_weight)

\* an undirected store with a self-loop, an edge inserted twice with two
\* weights, and so fewer triples than list entries
C25_Witness ==
    /\ ~al.directed
    /\ \E u \in Keys, v \in Keys :
          /\ u # v
          /\ L_has_edge(al, u, u)
          /\ Len(L_get_neighbors(al, v)) = 2
          /\ L_get_neighbors(al, v)[1] # L_get_neighbors(al, v)[2]
          /\ L_get_neighbors(al, v)[1][1] = u /\ L_get_neighbors(al, v)[2][1] = u
    /\ L_get_edge_count(al) = 2
    /\ M_get_edge_count(am) = 2

ReverseUntouched(u, v) ==
    /\ M_has_edge(am', v, u) = M_has_edge(am, v, u)
    /\ M_get_weight(am', v, u) = M_get_weight(am, v, u)
    /\ L_has_edge(al', v, u) = L_has_edge(al, v, u)
    /\ L_get_weight(al', v, u) = L_get_weight(al, v, u)

DirectedStep(call, M_inserted, L_inserted) ==
    (am.directed /\ call.u # call.v) =>
        /\ call.op = "add_edge" =>
              /\ M_inserted /\ L_inserted
              /\ ReverseUntouched(call.u, call.v)
        /\ call.op = "remove_edge" => ReverseUntouched(call.u, call.v)

\* C26: on both directed stores and for u # v, add_edge(u, v, w) makes
\* has_edge(u, v) true with get_weight(u, v) = w and leaves has_edge(v, u) and
\* get_weight(v, u) as they were; remove_edge(u, v) leaves them as they were
\* too.
C26_DirectedOneWay ==
    [][DirectedStep(last',
           M_has_edge(am', last'.u, last'.v) /\ M_get_weight(am', last'.u, last'.v) = last'.w,
           L_has_edge(al', last'.u, last'.v) /\ L_get_weight(al', last'.u, last'.v) = last'.w)]_vars

\* the same with the list store only required to have the edge, whatever weight
\* get_weight reports for it
C26_ReverseEdgeUntouched ==
    [][DirectedStep(last',
           M_has_edge(am', last'.u, last'.v) /\ M_get_weight(am', last'.u, last'.v) = last'.w,
           L_has_edge(al', last'.u, last'.v))]_vars

SameComponentsUpToInnerOrder(G) ==
    LET found == find_connected_components(G)
        listed == dfs_all_components(G)
    IN /\ Len(found) = Len(listed)
       /\ \A i \in 1..Len(found) :
             /\ Range(found[i]) = Range(listed[i])
             /\ Len(found[i]) = Len(listed[i])
             /\ found[i][1] = listed[i][1]

FinalizedVertices == [k \in 1..Len(run.finalized) |-> run.finalized[k][1]]

\* the distances and parents entries of v are the same after the step
EntriesKept(v) ==
    /\ run'.st.distances[v] = run.st.distances[v]
    /\ (v \in DOMAIN run'.st.parents) = (v \in DOMAIN run.st.parents)
    /\ v \in DOMAIN run.st.parents => run'.st.parents[v] = run.st.parents[v]

\* the entry the next heappop returns is for a vertex already in visited
StalePop ==
    /\ run.pc = "while" /\ run.st.pq # << >>
    /\ run.st.pq[HeapMinIndex(run.st.pq)][2] \in run.st.visited

\* a step of a run of dijkstra, from one position of the run to the next
DijkstraStep == run.alg = "dijkstra" /\ run'.alg = "dijkstra" /\ run' # run

FinalizationStep ==
    DijkstraStep =>
        /\ \A v \in run.st.visited : EntriesKept(v)
        /\ run.st.visited \subseteq run'.st.visited
        /\ StalePop =>
              /\ run'.pc = "while"
              /\ run'.st.pq = RemoveAt(run.st.pq, HeapMinIndex(run.st.pq))
              /\ run'.st.distances = run.st.distances
              /\ run'.st.parents = run.st.parents
              /\ run'.st.visited = run.st.visited
              /\ run'.finalized = run.finalized

FinalizedOnce ==
    run.alg = "dijkstra" =>
        /\ \A j, k \in 1..Len(run.finalized) :
              FinalizedVertices[j] = FinalizedVertices[k] => j = k
        /\ Range(FinalizedVertices) = run.st.visited
        /\ run.pc = "done" =>
              \A k \in 1..Len(run.finalized) :
                  run.st.distances[run.finalized[k][1]] = run.finalized[k][2]

\* C28: in a run of dijkstra (all weights of the stores are non-negative), a step
\* never changes the distances or parents entry of a vertex already in visited
\* and never takes a vertex out of visited; visited.add is called at most once
\* per vertex; popping an entry for a vertex already in visited only removes that
\* entry from the queue; and at the return each visited vertex has the distance
\* it had when it was added to visited.
C28_DijkstraFinalization == []FinalizedOnce /\ [][FinalizationStep]_vars

\* a run on the matrix store that finalized three vertices and has just skipped
\* a stale queue entry
C28_Witness ==
    /\ run.alg = "dijkstra" /\ run.store = "matrix" /\ run.pc = "while"
    /\ Len(run.finalized) = 3
    /\ run.current \in run.st.visited
    /\ run.current_dist > run.st.distances[run.current]

\* the stepwise run returns what the function dijkstra computes
DijkstraRunResult ==
    (run.alg = "dijkstra" /\ run.pc = "done") =>
        [distances |-> run.st.distances, parents |-> run.st.parents]
            = dijkstra(RunGraph, run.start)

\* indices of the dense store
Indices(g) == 0..(g.vertex_count - 1)

\* a dict, as its list of items, holds each key once
KeysOnce(d) == \A i, j \in 1..Len(d) : d[i][1] = d[j][1] => i = j

DenseStructure(g) ==
    /\ KeysOnce(g.vertices) /\ KeysOnce(g.index_to_vertex)
    /\ Range(DictKeys(g.index_to_vertex)) = Indices(g)
    /\ {g.vertices[i][2] : i \in 1..Len(g.vertices)} = Indices(g)
    /\ Range(DictKeys(g.vertices))
          = {g.index_to_vertex[i][2] : i \in 1..Len(g.index_to_vertex)}
    /\ Len(g.vertices) = g.vertex_count
    /\ \A i \in 1..Len(g.vertices) :
          DictGet(g.index_to_vertex, g.vertices[i][2]) = g.vertices[i][1]
    /\ \A i \in 1..Len(g.index_to_vertex) :
          DictGet(g.vertices, g.index_to_vertex[i][2]) = g.index_to_vertex[i][1]
    /\ DOMAIN g.matrix = Indices(g)
    /\ \A i \in Indices(g) : DOMAIN g.matrix[i] = Indices(g)

\* add_vertex(vertex) of a vertex the dense store did not hold
NewVertexStep(vertex) ==
    ~DictHas(am.vertices, vertex) =>
        /\ DictHas(am'.vertices, vertex)
        /\ am'.vertex_count = am.vertex_count + 1
        /\ \A x, y \in Range(DictKeys(am.vertices)) :
              /\ M_has_edge(am', x, y) = M_has_edge(am, x, y)
              /\ M_get_weight(am', x, y) = M_get_weight(am, x, y)
        /\ \A x \in Keys :
              /\ ~M_has_edge(am', vertex, x) /\ ~M_has_edge(am', x, vertex)
              /\ M_get_weight(am', vertex, x) = None
              /\ M_get_weight(am', x, vertex) = None
        /\ M_get_neighbors(am', vertex) = << >>

\* C29: after any sequence of add_vertex, add_edge and remove_edge calls the
\* dense store's vertices and index_to_vertex maps are inverse bijections between
\* its vertex set and 0..vertex_count-1 and its matrix has vertex_count rows of
\* vertex_count cells; add_vertex of a new vertex keeps has_edge and get_weight
\* of every pair of old vertices and leaves the new vertex without edges.
C29_DenseStructure ==
    /\ []DenseStructure(am)
    /\ [][last'.op = "add_vertex" => NewVertexStep(last'.u)]_vars

\* add_vertex just added a third vertex to a dense store that holds an edge
C29_Witness ==
    /\ last.op = "add_vertex"
    /\ am.vertex_count = 3
    /\ DictGet(am.vertices, last.u) = 2
    /\ \E x, y \in Keys : x # last.u /\ y # last.u /\ x # y /\ M_get_weight(am, x, y) = 2

\* what the function models return for the call a run stands for
FunctionResult(name, G, start) ==
    CASE name = "bfs" -> bfs(G, start)
      [] name = "dfs_iterative" -> dfs_iterative(G, start)
      [] name = "dijkstra" -> dijkstra(G, start)
      [] name = "dfs_all_components" -> dfs_all_components(G)
      [] name = "find_connected_components" -> find_connected_components(G)
      [] name = "topological_sort" -> topological_sort(G)
      [] name = "topological_sort_dfs" -> topological_sort_dfs(G)

\* a run, taken step by step, returns what the function model computes
RunResult ==
    (run.pc = "done" /\ run.alg # "dijkstra") =>
        run.result = FunctionResult(run.alg, RunGraph, run.start)

NoRepeat(seq) == \A j, k \in 1..Len(seq) : seq[j] = seq[k] => j = k

Running == run.pc \notin {"idle", "done"}

EnqueuedOnce ==
    (run.alg \in {"bfs", "topological_sort"} /\ Running) =>
        /\ NoRepeat(run.enqueued)
        /\ Range(run.st.queue) \subseteq Range(run.enqueued)

InDegreesNonNegative ==
    (run.alg = "topological_sort" /\ Running) =>
        \A k \in 1..Len(run.st.in_degree) : run.st.in_degree[k][2] >= 0

\* C30: on both stores, a call of bfs, dfs_iterative, dfs_all_components,
\* dijkstra, find_connected_components, topological_sort or topological_sort_dfs
\* that was entered returns (or raises); bfs and topological_sort put no vertex
\* in their queue twice; and no in-degree counter of topological_sort is ever
\* below zero.
C30_Termination ==
    /\ Running ~> (run.pc = "done")
    /\ []EnqueuedOnce
    /\ []InDegreesNonNegative

\* some key of the list store has two entries for the same neighbor
L_has_repeated_entry ==
    \E k \in 1..Len(al.graph) :
        \E i, j \in 1..Len(al.graph[k][2]) :
            i # j /\ al.graph[k][2][i][1] = al.graph[k][2][j][1]

\* bfs has returned on a list store with a self-loop, a repeated entry and a
\* cycle through two vertices
C30_Witness ==
    /\ run.alg = "bfs" /\ run.pc = "done" /\ run.store = "list"
    /\ L_has_repeated_entry
    /\ \E x \in Keys : L_has_edge(al, x, x)
    /\ \E x, y \in Keys : x # y /\ L_has_edge(al, x, y) /\ L_has_edge(al, y, x)
    /\ Cardinality(DOMAIN run.result.distances) = 2

====
